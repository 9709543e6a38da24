------------------------- MODULE SelectiveRepeatProofs -------------------------
(***************************************************************************)
(* Proofs about SelectiveRepeat, for every window, file and capacity of    *)
(* the socket buffers.  The types hold whatever the numbers do; the other  *)
(* theorems are about files so short that the numbers do not wrap around.  *)
(***************************************************************************)
EXTENDS SelectiveRepeat, UdpSocketProofs, FiniteSetTheorems,
        WellFoundedInduction

(* Neither the packets of the file nor a window behind the last of them    *)
(* come to the end of the sequence numbers: files of up to 995 packets     *)
(* with the constants of packet.h.                                         *)
NoWrapAround == NumPackets + WINDOW_SIZE <= MAX_SEQ_NO

(* What a window sends through one relay finds room in one socket buffer:  *)
(* with the window of packet.h, three datagrams.                           *)
BurstFits == WINDOW_SIZE <= 2 * Cap

(* What the client sends through r, and the packet of a number.            *)
PacketOf(s) == [final_packet |-> 0, seq_no |-> s, payload |-> s + 1]
SentThrough(r) == {s \in 0 .. currseq - 1 : RelayOf(s) = r}

Elements(q) == {q[i] : i \in 1..Len(q)}

(* The client's window: what was sent is behind base or within a window    *)
(* from it, and the slots hold it.                                         *)
WindowHoldsSent ==
    /\ currseq = chunks
    /\ client = "running" => base <= currseq /\ currseq <= base + WINDOW_SIZE
    /\ \A s \in 0 .. currseq - 1 :
          currseq <= s + WINDOW_SIZE => sent_packets[Slot(s)] = PacketOf(s)

(* Whatever is under way is the packet of a number that was sent through   *)
(* the relay, or acknowledges one that the server has.                     *)
TrafficGenuine ==
    \A r \in Relay :
        /\ Elements(toRelay[r]) \subseteq {PacketOf(s) : s \in SentThrough(r)}
        /\ Elements(toServer[r]) \subseteq {PacketOf(s) : s \in SentThrough(r)}
        /\ \A s \in Elements(backToRelay[r]) \cup Elements(toClient[r]) :
              s \in SentThrough(r) /\ ServerHas(s)

(* The server has written exactly what it has, each piece once and less    *)
(* than a window from its place, and it has nothing that was not sent.     *)
ServerWrote ==
    /\ rcv_base <= currseq
    /\ \A s \in rcv_base .. rcv_base + WINDOW_SIZE - 1 :
          ackd[Slot(s)] = 1 => s < currseq
    /\ \A s \in Nat : ServerHas(s) <=> s + 1 \in Elements(written)
    /\ WrittenOnce
    /\ OrderWithinWindow

Agreement == WindowHoldsSent /\ TrafficGenuine /\ ServerWrote

(* As long as no timeout came too early: *)
Pending(s) == base <= s /\ s < currseq /\ acks[Slot(s)] = 0

Distinct(q) == \A i, j \in 1..Len(q) : i # j => q[i] # q[j]

(* No number is under way twice through a relay, in whatever direction,    *)
(* and only such that the client waits for, so that the marks it makes are *)
(* those of its window.                                                    *)
OnePlace(data, more, back, answers) ==
    /\ Distinct(data) /\ Distinct(more) /\ Distinct(back) /\ Distinct(answers)
    /\ \A p \in Elements(data) : p \notin Elements(more)
    /\ \A p \in Elements(data) \cup Elements(more) :
          p.seq_no \notin Elements(back) \cup Elements(answers)
    /\ \A s \in Elements(back) : s \notin Elements(answers)

InOnePlace ==
    \A r \in Relay :
        OnePlace(toRelay[r], toServer[r], backToRelay[r], toClient[r])

OnlyPending ==
    \A r \in Relay :
        /\ \A p \in Elements(toRelay[r]) \cup Elements(toServer[r]) : Pending(p.seq_no)
        /\ \A s \in Elements(backToRelay[r]) \cup Elements(toClient[r]) : Pending(s)

MarksTruthful ==
    /\ slid = base /\ base <= currseq
    /\ client = "done" => feof /\ base = currseq
    /\ \A s \in 0 .. base - 1 : ServerHas(s)
    /\ \A s \in base .. base + WINDOW_SIZE - 1 :
          acks[Slot(s)] = 1 => s < currseq /\ ServerHas(s)

(* What the server has and the client waits for is acknowledged.           *)
Acknowledging ==
    \A s \in base .. currseq - 1 :
        acks[Slot(s)] = 0 /\ ServerHas(s) =>
            s \in Elements(backToRelay[RelayOf(s)]) \cup Elements(toClient[RelayOf(s)])

AgreementOnTime == early = 0 => InOnePlace /\ OnlyPending /\ MarksTruthful
AckedOnTime == early = 0 => Acknowledging

-----------------------------------------------------------------------------
(* Every set of numbers that is not empty has a least one. *)
LEMMA LeastNumber ==
    ASSUME NEW S \in SUBSET Nat, S # {}
    PROVE  \E n \in S : \A m \in S : n <= m
<1>1. PICK n \in S : \A m \in S : ~(<<m, n>> \in OpToRel(<, Nat))
  BY NatLessThanWellFounded, WFMin
<1>2. \A m \in S : <<m, n>> \in OpToRel(<, Nat) <=> m < n
  BY DEF OpToRel
<1>3. \A m \in S : ~(m < n)
  BY <1>1, <1>2
<1>4. \A m \in S : m \in Nat /\ n \in Nat
  OBVIOUS
<1> QED
  BY <1>3, <1>4

(* Induction over the numbers, for a property given as a set.              *)
LEMMA SetInduction ==
    ASSUME NEW S, 0 \in S, \A n \in Nat : n \in S => n + 1 \in S
    PROVE  Nat \subseteq S
<1> DEFINE Missing == {n \in Nat : n \notin S}
<1> SUFFICES ASSUME Missing # {} PROVE FALSE
  OBVIOUS
<1>1. PICK n \in Missing : \A m \in Missing : n <= m
  BY LeastNumber
<1>2. n \in Nat \ {0} /\ n - 1 \in Nat
  BY <1>1
<1>3. n - 1 \in S
  BY <1>1, <1>2
<1> QED
  BY <1>1, <1>2, <1>3

(* A number has a slot. *)
LEMMA SlotType == \A s \in Nat : Slot(s) \in Slots
  BY WindowAssumption DEF Slot, Slots

(* Numbers less than a window apart have different slots. *)
LEMMA SlotsDiffer ==
    ASSUME NEW i \in Nat, NEW j \in Nat, i < j, j < i + WINDOW_SIZE
    PROVE  Slot(i) # Slot(j)
<1> DEFINE W == WINDOW_SIZE
<1>1. W \in Nat \ {0}
  BY WindowAssumption
<1> HIDE DEF W
<1>2. i = W * (i \div W) + (i % W) /\ j = W * (j \div W) + (j % W)
  BY <1>1
<1>3. ASSUME i % W = j % W
      PROVE  FALSE
  <2>1. j - i = W * ((j \div W) - (i \div W))
    BY <1>1, <1>2, <1>3
  <2>2. (j \div W) - (i \div W) > 0
    BY <1>1, <2>1
  <2>3. W * ((j \div W) - (i \div W)) >= W
    BY <1>1, <2>2
  <2> QED
    BY <1>1, <2>1, <2>3 DEF W
<1> QED
  BY <1>3 DEF W, Slot

(* So the numbers of a window can be told apart by their slots. *)
LEMMA SlotInjective ==
    ASSUME NEW b \in Nat, NEW i \in b .. b + WINDOW_SIZE - 1,
           NEW j \in b .. b + WINDOW_SIZE - 1, Slot(i) = Slot(j)
    PROVE  i = j
<1>1. /\ i \in Nat /\ j \in Nat /\ WINDOW_SIZE \in Nat
      /\ i < j + WINDOW_SIZE /\ j < i + WINDOW_SIZE
  BY WindowAssumption
<1>2. CASE i < j
  BY <1>1, <1>2, SlotsDiffer
<1>3. CASE j < i
  BY <1>1, <1>3, SlotsDiffer
<1> QED
  BY <1>1, <1>2, <1>3

(* A number and the one a window behind it share a slot. *)
LEMMA SlotPeriod ==
    ASSUME NEW i \in Nat
    PROVE  Slot(i + WINDOW_SIZE) = Slot(i)
<1> DEFINE W == WINDOW_SIZE
<1>1. W \in Nat \ {0}
  BY WindowAssumption
<1> HIDE DEF W
<1>2. (i + W) % W = i % W
  <2>1. i = W * (i \div W) + (i % W) /\ (i % W) \in 0 .. W - 1 /\ (i \div W) \in Nat
    BY <1>1
  <2>2. i + W = W * ((i \div W) + 1) + (i % W)
    BY <1>1, <2>1
  <2>3. /\ i + W = W * ((i + W) \div W) + ((i + W) % W)
        /\ ((i + W) % W) \in 0 .. W - 1 /\ ((i + W) \div W) \in Nat
    BY <1>1
  <2> DEFINE p == (i \div W) + 1   q == (i + W) \div W
             a == i % W            c == (i + W) % W
  <2>4. /\ p \in Nat /\ q \in Nat /\ a \in 0 .. W - 1 /\ c \in 0 .. W - 1
        /\ W * p + a = W * q + c
    BY <2>1, <2>2, <2>3
  <2> HIDE DEF p, q, a, c
  <2>5. W * (p - q) = c - a
    BY <1>1, <2>4
  <2>6. ~(p - q >= 1) /\ ~(q - p >= 1)
    <3>1. ASSUME p - q >= 1 PROVE FALSE
      <4>1. W * (p - q) >= W
        BY <1>1, <2>4, <3>1
      <4> QED
        BY <1>1, <2>4, <2>5, <4>1
    <3>2. ASSUME q - p >= 1 PROVE FALSE
      <4>1. W * (q - p) >= W /\ W * (q - p) = a - c
        BY <1>1, <2>4, <2>5, <3>2
      <4> QED
        BY <1>1, <2>4, <4>1
    <3> QED
      BY <3>1, <3>2
  <2>7. p = q
    BY <2>4, <2>6
  <2>8. a = c
    BY <1>1, <2>4, <2>5, <2>7
  <2> QED
    BY <2>8 DEF a, c
<1> QED
  BY <1>2 DEF W, Slot

-----------------------------------------------------------------------------
(* The loop of the window stops within a window: of WINDOW_SIZE + 1        *)
(* numbers two have the same slot.                                         *)
LEMMA SlideLengthType ==
    ASSUME NEW first \in SeqNo, NEW marks
    PROVE  SlideLength(first, marks) \in 0..WINDOW_SIZE
<1>1. WINDOW_SIZE \in Nat \ {0} /\ MAX_SEQ_NO \in Nat
  BY WindowAssumption, SeqNoAssumption
<1> DEFINE f == [k \in 0..WINDOW_SIZE |-> Slot(Ahead(first, k))]
<1>2. f \in [0..WINDOW_SIZE -> Slots]
  <2>1. \A k \in 0..WINDOW_SIZE : Ahead(first, k) \in Nat
    BY <1>1 DEF Ahead, SeqNo
  <2> QED
    BY <2>1, SlotType
<1>3. IsFiniteSet(0..WINDOW_SIZE) /\ Cardinality(0..WINDOW_SIZE) = WINDOW_SIZE + 1
  BY <1>1, FS_Interval
<1>4. IsFiniteSet(Slots) /\ Cardinality(Slots) = WINDOW_SIZE
  <2>1. 0 \in Int /\ WINDOW_SIZE - 1 \in Int
    BY <1>1
  <2> QED
    BY <1>1, <2>1, FS_Interval DEF Slots
<1>5. Cardinality(Slots) < Cardinality(0..WINDOW_SIZE)
  BY <1>1, <1>3, <1>4
<1> HIDE DEF f
<1>6. PICK i, j \in 0..WINDOW_SIZE : i # j /\ f[i] = f[j]
  <2> DEFINE W == 0..WINDOW_SIZE
  <2>1. f \in [W -> Slots] /\ IsFiniteSet(W) /\ Cardinality(Slots) < Cardinality(W)
    BY <1>2, <1>3, <1>5
  <2> HIDE DEF W
  <2>2. \E i, j \in W : i # j /\ f[i] = f[j]
    BY <1>4, <2>1, FS_PigeonHole
  <2> QED
    BY <2>2 DEF W
<1>7. PICK m \in 0..WINDOW_SIZE : \E k \in 0 .. m - 1 : f[k] = f[m]
  <2>1. CASE i < j
    <3>1. i \in 0 .. j - 1
      BY <2>1
    <3> QED
      BY <1>6, <3>1
  <2>2. CASE j < i
    <3>1. j \in 0 .. i - 1
      BY <2>2
    <3> QED
      BY <1>6, <3>1
  <2> QED
    BY <1>6, <2>1, <2>2
<1>8. StopsAt(first, marks, m)
  <2>1. PICK k \in 0 .. m - 1 : f[k] = f[m]
    BY <1>7
  <2>2. k \in 0..WINDOW_SIZE
    BY <1>1
  <2> QED
    BY <2>1, <2>2 DEF StopsAt, f
<1> DEFINE Stops == {k \in 0..WINDOW_SIZE : StopsAt(first, marks, k)}
<1>9. PICK n \in Stops : \A k \in Stops : n <= k
  <2>1. m \in Stops /\ Stops \in SUBSET Nat
    BY <1>1, <1>8
  <2> QED
    BY <2>1, LeastNumber
<1>10. n \in 0..WINDOW_SIZE /\ StopsAt(first, marks, n)
  BY <1>9
<1>11. \A k \in 0 .. n - 1 : ~StopsAt(first, marks, k)
  <2> SUFFICES ASSUME NEW k \in 0 .. n - 1, StopsAt(first, marks, k)
               PROVE  FALSE
    OBVIOUS
  <2>1. k \in 0..WINDOW_SIZE /\ k < n
    BY <1>1, <1>10
  <2> QED
    BY <1>9, <1>10, <2>1
<1> HIDE DEF Stops
<1> QED
  BY <1>10, <1>11 DEF SlideLength

(* What the loop does where the numbers do not wrap around: it leaves      *)
(* marked numbers behind, keeps the marks of the others, and the numbers   *)
(* that come into the window are not marked.                               *)
LEMMA SlideFacts ==
    ASSUME NEW first \in Nat, first + WINDOW_SIZE <= MAX_SEQ_NO,
           NEW marks \in [Slots -> Flag]
    PROVE  LET n == SlideLength(first, marks) IN
             /\ n \in 0..WINDOW_SIZE
             /\ Ahead(first, n) = first + n
             /\ \A s \in first .. first + n - 1 : marks[Slot(s)] = 1
             /\ \A s \in first + n .. first + WINDOW_SIZE - 1 :
                   Cleared(first, marks, n)[Slot(s)] = marks[Slot(s)]
             /\ \A s \in first + WINDOW_SIZE .. first + n + WINDOW_SIZE - 1 :
                   Cleared(first, marks, n)[Slot(s)] = 0
<1> DEFINE n == SlideLength(first, marks)
           W == WINDOW_SIZE
<1>1. W \in Nat \ {0} /\ MAX_SEQ_NO \in Nat /\ first \in SeqNo
  BY WindowAssumption, SeqNoAssumption DEF SeqNo
<1>2. \A k \in 0..W : Ahead(first, k) = first + k
  <2> SUFFICES ASSUME NEW k \in 0..W PROVE (first + k) % (MAX_SEQ_NO + 1) = first + k
    BY DEF Ahead
  <2> QED
    BY <1>1
<1>3. \E k \in 0..W :
         StopsAt(first, marks, k) /\ \A j \in 0 .. k - 1 : ~StopsAt(first, marks, j)
  <2> DEFINE Stops == {k \in 0..W : StopsAt(first, marks, k)}
  <2>1. StopsAt(first, marks, W)
    <3>1. Slot(first + W) = Slot(first + 0)
      BY <1>1, SlotPeriod
    <3>2. Ahead(first, W) = first + W /\ Ahead(first, 0) = first + 0 /\ 0 \in 0 .. W - 1
      BY <1>1, <1>2
    <3> QED
      BY <3>1, <3>2 DEF StopsAt
  <2>2. W \in Stops /\ Stops \in SUBSET Nat
    BY <1>1, <2>1
  <2>3. PICK k \in Stops : \A j \in Stops : k <= j
    BY <2>2, LeastNumber
  <2>4. k \in 0..W /\ StopsAt(first, marks, k)
    BY <2>3
  <2>5. \A j \in 0 .. k - 1 : ~StopsAt(first, marks, j)
    <3> SUFFICES ASSUME NEW j \in 0 .. k - 1, StopsAt(first, marks, j)
                 PROVE  FALSE
      OBVIOUS
    <3>1. j \in 0..W /\ j < k
      BY <1>1, <2>4
    <3> QED
      BY <2>3, <2>4, <3>1
  <2> QED
    BY <2>4, <2>5
<1>4. n \in 0..W /\ \A j \in 0 .. n - 1 : ~StopsAt(first, marks, j)
  BY <1>3 DEF SlideLength
<1> HIDE DEF n
<1>5. ASSUME NEW s \in first .. first + n - 1
      PROVE  marks[Slot(s)] = 1
  <2>1. s - first \in 0 .. n - 1 /\ s - first \in 0..W /\ first + (s - first) = s /\ s \in Nat
    BY <1>1, <1>4
  <2>2. Ahead(first, s - first) = s
    BY <1>2, <2>1
  <2>3. marks[Slot(s)] # 0
    BY <1>4, <2>1, <2>2 DEF StopsAt
  <2> QED
    BY <2>1, <2>3, SlotType DEF Flag
<1>6. ASSUME NEW s \in first + n .. first + W - 1
      PROVE  Cleared(first, marks, n)[Slot(s)] = marks[Slot(s)]
  <2>1. s \in first .. first + W - 1 /\ s \in Nat
    BY <1>1, <1>4
  <2>2. ASSUME NEW k \in 0 .. n - 1, Slot(Ahead(first, k)) = Slot(s)
        PROVE  FALSE
    <3>1. k \in 0..W /\ first + k \in first .. first + W - 1 /\ first + k < s
      BY <1>1, <1>4
    <3>2. Slot(first + k) = Slot(s)
      BY <1>2, <2>2, <3>1
    <3>3. first + k = s
      BY <2>1, <3>1, <3>2, SlotInjective
    <3> QED
      BY <3>1, <3>3
  <2> QED
    BY <2>1, <2>2, SlotType DEF Cleared
<1>7. ASSUME NEW s \in first + W .. first + n + W - 1
      PROVE  Cleared(first, marks, n)[Slot(s)] = 0
  <2>1. s - W \in Nat /\ s \in Nat /\ s - W - first \in 0 .. n - 1 /\ s - W - first \in 0..W
        /\ first + (s - W - first) = s - W /\ (s - W) + W = s
    BY <1>1, <1>4
  <2>2. Slot(s) = Slot(s - W)
    BY <2>1, SlotPeriod
  <2>3. Ahead(first, s - W - first) = s - W
    BY <1>2, <2>1
  <2> QED
    BY <2>1, <2>2, <2>3, SlotType DEF Cleared
<1> QED
  BY <1>2, <1>4, <1>5, <1>6, <1>7 DEF n

-----------------------------------------------------------------------------
(* A sequence and one element more. *)
LEMMA AppendElements ==
    ASSUME NEW S, NEW q \in Seq(S), NEW m \in S
    PROVE  /\ Append(q, m) \in Seq(S)
           /\ Elements(Append(q, m)) = Elements(q) \cup {m}
           /\ Distinct(q) /\ m \notin Elements(q) => Distinct(Append(q, m))
<1>1. Len(q) \in Nat
  BY LenProperties
<1>2. /\ Append(q, m) \in Seq(S) /\ Len(Append(q, m)) = Len(q) + 1
      /\ \A i \in 1..Len(q) : Append(q, m)[i] = q[i]
      /\ Append(q, m)[Len(q) + 1] = m
  BY AppendProperties
<1>3. \A i \in 1 .. Len(q) + 1 : i \in 1..Len(q) \/ i = Len(q) + 1
  BY <1>1
<1>4. Elements(Append(q, m)) = Elements(q) \cup {m}
  BY <1>1, <1>2, <1>3 DEF Elements
<1>5. ASSUME Distinct(q), m \notin Elements(q)
      PROVE  Distinct(Append(q, m))
  <2>1. \A i \in 1..Len(q) : q[i] # m
    BY <1>5 DEF Elements
  <2> QED
    BY <1>2, <1>3, <1>5, <2>1 DEF Distinct
<1> QED
  BY <1>2, <1>4, <1>5

(* sendto() adds the datagram to what is in the buffer, or nothing. *)
LEMMA SendToElements ==
    ASSUME NEW S, NEW q \in Seq(S), NEW m \in S, Len(q) <= Cap
    PROVE  /\ SendTo(q, m) \in Seq(S) /\ Len(SendTo(q, m)) <= Cap
           /\ Elements(SendTo(q, m)) \subseteq Elements(q) \cup {m}
           /\ Elements(q) \subseteq Elements(SendTo(q, m))
           /\ Len(q) < Cap => m \in Elements(SendTo(q, m))
           /\ Distinct(q) /\ m \notin Elements(q) => Distinct(SendTo(q, m))
<1>1. SendTo(q, m) \in Seq(S) /\ Len(SendTo(q, m)) <= Cap
  BY SendToFacts
<1>2. Len(q) \in Nat /\ Cap \in Nat
  BY LenProperties, CapAssumption
<1>3. CASE Len(q) < Cap
  <2>1. SendTo(q, m) = Append(q, m)
    BY <1>3 DEF SendTo
  <2> QED
    BY <1>1, <2>1, AppendElements
<1>4. CASE ~(Len(q) < Cap)
  <2>1. SendTo(q, m) = q
    BY <1>4 DEF SendTo
  <2> QED
    BY <1>1, <1>4, <2>1
<1> QED
  BY <1>3, <1>4

(* recvfrom() takes the first datagram away. *)
LEMMA TailElements ==
    ASSUME NEW S, NEW q \in Seq(S), Readable(q), Len(q) <= Cap
    PROVE  /\ Head(q) \in S /\ Head(q) \in Elements(q)
           /\ Tail(q) \in Seq(S) /\ Len(Tail(q)) <= Cap
           /\ Elements(Tail(q)) \subseteq Elements(q)
           /\ Elements(q) \subseteq Elements(Tail(q)) \cup {Head(q)}
           /\ Distinct(q) => Distinct(Tail(q)) /\ Head(q) \notin Elements(Tail(q))
<1>1. /\ Head(q) \in S /\ Len(q) >= 1 /\ Head(q) = q[1] /\ Tail(q) \in Seq(S)
      /\ Len(Tail(q)) = Len(q) - 1
      /\ \A i \in 1..Len(Tail(q)) : i + 1 \in 1..Len(q) /\ Tail(q)[i] = q[i + 1]
  BY RecvFromFacts
<1>2. Len(q) \in Nat /\ Len(Tail(q)) \in Nat /\ Cap \in Nat
  BY <1>1, LenProperties, CapAssumption
<1>3. 1 \in 1..Len(q) /\ Len(Tail(q)) <= Cap
  BY <1>1, <1>2
<1>4. Elements(Tail(q)) \subseteq Elements(q)
  BY <1>1 DEF Elements
<1>5. Elements(q) \subseteq Elements(Tail(q)) \cup {Head(q)}
  <2> SUFFICES ASSUME NEW i \in 1..Len(q), i # 1
               PROVE  q[i] \in Elements(Tail(q))
    BY <1>1 DEF Elements
  <2>1. i - 1 \in 1..Len(Tail(q)) /\ (i - 1) + 1 = i
    BY <1>1, <1>2
  <2>2. Tail(q)[i - 1] = q[i]
    BY <1>1, <2>1
  <2> QED
    BY <2>1, <2>2 DEF Elements
<1>6. ASSUME Distinct(q)
      PROVE  Distinct(Tail(q)) /\ Head(q) \notin Elements(Tail(q))
  <2>1. \A i, j \in 1..Len(Tail(q)) : i # j => i + 1 # j + 1 /\ i + 1 # 1
    BY <1>2
  <2>2. \A i \in 1..Len(Tail(q)) : i + 1 # 1
    BY <1>2
  <2>3. \A i \in 1..Len(Tail(q)) : Tail(q)[i] # q[1]
    BY <1>1, <1>3, <1>6, <2>2 DEF Distinct
  <2>4. Distinct(Tail(q))
    BY <1>1, <1>6, <2>1 DEF Distinct
  <2> QED
    BY <1>1, <2>3, <2>4 DEF Elements
<1> QED
  BY <1>1, <1>3, <1>4, <1>5, <1>6 DEF Elements

(* A burst of sendto() adds some of its datagrams. *)
LEMMA SendAllElements ==
    ASSUME NEW S, NEW q \in Seq(S), NEW ms \in Seq(S), Len(q) <= Cap
    PROVE  /\ SendAll(q, ms) \in Seq(S) /\ Len(SendAll(q, ms)) <= Cap
           /\ Elements(SendAll(q, ms)) \subseteq Elements(q) \cup Elements(ms)
  BY SendAllFacts DEF Elements

(* A burst into an empty buffer. *)
LEMMA SendAllToEmpty ==
    ASSUME NEW S, NEW ms \in Seq(S), Distinct(ms)
    PROVE  Distinct(SendAll(<<>>, ms))
<1> DEFINE fit  == IF Len(ms) <= Cap - 0 THEN Len(ms) ELSE Cap - 0
           more == SubSeq(ms, 1, fit)
<1>1. Len(<<>>) = 0 /\ Cap \in Nat /\ Len(ms) \in Nat /\ <<>> \in Seq(S)
  BY EmptySeq, LenProperties, CapAssumption
<1>2. fit \in 0..Len(ms)
  BY <1>1
<1>3. SendAll(<<>>, ms) = <<>> \o more
  BY <1>1 DEF SendAll
<1> HIDE DEF fit
<1>4. /\ more \in Seq(S) /\ Len(more) = fit
      /\ \A k \in 1..fit : k \in 1..Len(ms) /\ more[k] = ms[k]
  <2>1. \A i \in 1..fit : ms[i] \in S
    BY <1>1, <1>2, ElementOfSeq
  <2>2. fit \in Int /\ 1 \in Int
    BY <1>2
  <2>3. /\ SubSeq(ms, 1, fit) \in Seq(S)
        /\ Len(SubSeq(ms, 1, fit)) = IF 1 <= fit THEN fit - 1 + 1 ELSE 0
        /\ \A i \in 1 .. fit - 1 + 1 : SubSeq(ms, 1, fit)[i] = ms[1 + i - 1]
    BY <2>1, <2>2, SubSeqProperties
  <2> QED
    BY <1>1, <1>2, <2>3
<1> HIDE DEF more
<1>5. <<>> \o more = more
  BY <1>4, ConcatEmptySeq
<1> QED
  BY <1>3, <1>4, <1>5 DEF Distinct

-----------------------------------------------------------------------------
(* The function that Resent computes, and that there is one.               *)
ResendStep(f, r, k) ==
    IF k = 0 THEN <<>>
    ELSE IF ~Unacked(r, base + k - 1) THEN f[k - 1]
    ELSE Append(f[k - 1], sent_packets[Slot(base + k - 1)])

Resends(f, r, n) == f = [k \in 0..n |-> ResendStep(f, r, k)]

(* The function holds the packets of the first k numbers that are resent.  *)
LEMMA ResendsValues ==
    ASSUME NEW f, NEW r, NEW n \in Nat, Resends(f, r, n)
    PROVE  /\ f[0] = <<>>
           /\ \A k \in 1..n :
                 f[k] = IF ~Unacked(r, base + k - 1) THEN f[k - 1]
                        ELSE Append(f[k - 1], sent_packets[Slot(base + k - 1)])
<1>1. \A k \in 0..n : f[k] = ResendStep(f, r, k)
  BY DEF Resends
<1> QED
  BY <1>1 DEF ResendStep

(* There is such a function, so the CHOOSE of Resent finds it.             *)
LEMMA ResendsExists ==
    ASSUME NEW r
    PROVE  \A n \in Nat : \E f : Resends(f, r, n)
<1> DEFINE S == {n \in Nat : \E f : Resends(f, r, n)}
<1>1. 0 \in S
  <2> DEFINE f == [k \in 0..0 |-> <<>>]
  <2>1. \A k \in 0..0 : f[k] = ResendStep(f, r, k)
    BY DEF ResendStep
  <2>2. Resends(f, r, 0)
    BY <2>1 DEF Resends
  <2> QED
    BY <2>2
<1>2. ASSUME NEW n \in Nat, n \in S PROVE n + 1 \in S
  <2>1. PICK f : Resends(f, r, n)
    BY <1>2
  <2> DEFINE g == [k \in 0 .. n + 1 |->
                      IF k = n + 1 THEN ResendStep(f, r, n + 1) ELSE f[k]]
  <2>2. \A k \in 0..n : f[k] = ResendStep(f, r, k)
    BY <2>1 DEF Resends
  <2>3. \A k \in 0 .. n + 1 : ResendStep(g, r, k) = ResendStep(f, r, k)
    BY DEF ResendStep
  <2>4. \A k \in 0 .. n + 1 : g[k] = ResendStep(g, r, k)
    BY <2>2, <2>3
  <2>5. Resends(g, r, n + 1)
    BY <2>4 DEF Resends
  <2> QED
    BY <2>5
<1> HIDE DEF S
<1>3. Nat \subseteq S
  BY <1>1, <1>2, SetInduction
<1> QED
  BY <1>3 DEF S

(* Resent is the last value of the function.                               *)
LEMMA ResentDef ==
    ASSUME NEW r, base \in Nat, currseq \in Nat, base < currseq
    PROVE  \E f : Resends(f, r, currseq - base) /\ Resent(r) = f[currseq - base]
<1> DEFINE f == CHOOSE f : Resends(f, r, currseq - base)
<1>1. currseq - base \in Nat
  OBVIOUS
<1>2. Resends(f, r, currseq - base)
  BY <1>1, ResendsExists
<1>3. Resent(r) = f[currseq - base]
  BY DEF Resent, Resends, ResendStep
<1> QED
  BY <1>2, <1>3

(* What a timeout sends again are packets in slots of the window that are  *)
(* not marked.                                                             *)
Unmarked(r, n) == {s \in base .. base + n - 1 : Unacked(r, s)}

(* A timeout sends the packets of the numbers that are not marked, once.   *)
LEMMA ResentElements ==
    ASSUME NEW r, base \in Nat, currseq \in Nat,
           sent_packets \in [Slots -> Packet]
    PROVE  /\ Resent(r) \in Seq(Packet)
           /\ Elements(Resent(r)) \subseteq
                 {sent_packets[Slot(s)] : s \in Unmarked(r, currseq - base)}
           /\ (\A s \in base .. currseq - 1 : sent_packets[Slot(s)] = PacketOf(s))
                 => Distinct(Resent(r))
<1>1. CASE ~(base < currseq)
  <2>1. Resent(r) = <<>> /\ <<>> \in Seq(Packet) /\ Len(<<>>) = 0
    BY <1>1, EmptySeq DEF Resent
  <2> QED
    BY <2>1 DEF Elements, Distinct
<1>2. CASE base < currseq
  <2> DEFINE n == currseq - base
             Chosen(k) == {sent_packets[Slot(s)] : s \in Unmarked(r, k)}
  <2>1. n \in Nat /\ base + n = currseq
    BY <1>2
  <2>2. PICK f : Resends(f, r, n) /\ Resent(r) = f[n]
    BY <1>2, ResentDef
  <2> DEFINE Good == {k \in Nat : k <= n => /\ f[k] \in Seq(Packet)
                                            /\ Elements(f[k]) \subseteq Chosen(k)}
  <2> HIDE DEF n
  <2>3. f[0] = <<>> /\ <<>> \in Seq(Packet) /\ Len(<<>>) = 0
    BY <2>1, <2>2, ResendsValues, EmptySeq
  <2>4. 0 \in Good
    <3>1. Elements(f[0]) = {}
      BY <2>3 DEF Elements
    <3> QED
      BY <2>3, <3>1
  <2>5. ASSUME NEW k \in Nat, k + 1 <= n
        PROVE  /\ k + 1 \in 1..n /\ (k + 1) - 1 = k /\ base + (k + 1) - 1 = base + k
               /\ base + k \in Nat /\ Slot(base + k) \in Slots
               /\ f[k + 1] = IF ~Unacked(r, base + k) THEN f[k]
                             ELSE Append(f[k], sent_packets[Slot(base + k)])
    <3>1. k + 1 \in 1..n /\ (k + 1) - 1 = k /\ base + (k + 1) - 1 = base + k
          /\ base + k \in Nat
      BY <2>1, <2>5
    <3>2. Slot(base + k) \in Slots
      BY <3>1, SlotType
    <3> QED
      BY <2>1, <2>2, <3>1, <3>2, ResendsValues
  <2>6. ASSUME NEW k \in Nat, k \in Good PROVE k + 1 \in Good
    <3> SUFFICES ASSUME k + 1 <= n
                 PROVE  f[k + 1] \in Seq(Packet) /\ Elements(f[k + 1]) \subseteq Chosen(k + 1)
      OBVIOUS
    <3>1. f[k] \in Seq(Packet) /\ Elements(f[k]) \subseteq Chosen(k)
      BY <2>1, <2>6
    <3>2. Unmarked(r, k) \subseteq Unmarked(r, k + 1)
      BY DEF Unmarked
    <3>3. Chosen(k) \subseteq Chosen(k + 1)
      BY <3>2
    <3>4. CASE ~Unacked(r, base + k)
      BY <2>5, <3>1, <3>3, <3>4
    <3>5. CASE Unacked(r, base + k)
      <4>1. base + k \in Unmarked(r, k + 1)
        BY <2>5, <3>5 DEF Unmarked
      <4>2. sent_packets[Slot(base + k)] \in Chosen(k + 1)
            /\ sent_packets[Slot(base + k)] \in Packet
        BY <2>5, <4>1
      <4>3. f[k + 1] = Append(f[k], sent_packets[Slot(base + k)])
        BY <2>5, <3>5
      <4>4. /\ f[k + 1] \in Seq(Packet)
            /\ Elements(f[k + 1]) =
                  Elements(f[k]) \cup {sent_packets[Slot(base + k)]}
        BY <3>1, <4>2, <4>3, AppendElements
      <4> HIDE DEF Chosen
      <4> QED
        BY <3>1, <3>3, <4>2, <4>4
    <3> QED
      BY <3>4, <3>5
  <2> HIDE DEF Good
  <2>7. Nat \subseteq Good
    BY <2>4, <2>6, SetInduction
  <2>8. ASSUME \A s \in base .. currseq - 1 : sent_packets[Slot(s)] = PacketOf(s)
        PROVE  Distinct(f[n])
    <3> DEFINE T == {k \in Nat : k <= n => Distinct(f[k])}
    <3>1. 0 \in T
      BY <2>3 DEF Distinct
    <3>2. ASSUME NEW k \in Nat, k \in T PROVE k + 1 \in T
      <4> SUFFICES ASSUME k + 1 <= n PROVE Distinct(f[k + 1])
        OBVIOUS
      <4>1. Distinct(f[k])
        BY <2>1, <3>2
      <4>2. f[k] \in Seq(Packet) /\ Elements(f[k]) \subseteq Chosen(k)
        <5>1. k \in Good /\ k <= n
          BY <2>1, <2>7
        <5> HIDE DEF Chosen
        <5> QED
          BY <5>1 DEF Good
      <4>3. base + k \in base .. currseq - 1
        BY <2>1
      <4>4. sent_packets[Slot(base + k)] = PacketOf(base + k)
            /\ sent_packets[Slot(base + k)] \in Packet
        BY <2>5, <2>8, <4>3
      <4>5. ASSUME NEW s \in Unmarked(r, k)
            PROVE  sent_packets[Slot(s)] # PacketOf(base + k)
        <5>1. s \in base .. currseq - 1 /\ s # base + k
          BY <2>1, <4>3 DEF Unmarked
        <5>2. sent_packets[Slot(s)] = PacketOf(s)
          BY <2>8, <5>1
        <5>3. PacketOf(s).seq_no # PacketOf(base + k).seq_no
          BY <5>1 DEF PacketOf
        <5> QED
          BY <5>2, <5>3
      <4>6. PacketOf(base + k) \notin Elements(f[k])
        BY <4>2, <4>5
      <4> QED
        BY <2>5, <4>1, <4>2, <4>4, <4>6, AppendElements
    <3> HIDE DEF T
    <3>3. Nat \subseteq T
      BY <3>1, <3>2, SetInduction
    <3> QED
      BY <2>1, <3>3 DEF T
  <2>9. f[n] \in Seq(Packet) /\ Elements(f[n]) \subseteq Chosen(n)
    BY <2>1, <2>7 DEF Good
  <2> QED
    BY <2>2, <2>8, <2>9 DEF n
<1> QED
  BY <1>1, <1>2

-----------------------------------------------------------------------------
(* The buffers of one relay. *)
LEMMA BufferTypes ==
    ASSUME TypeOK, NEW r \in Relay
    PROVE  /\ toRelay[r] \in Seq(Packet) /\ Len(toRelay[r]) <= Cap
           /\ toServer[r] \in Seq(Packet) /\ Len(toServer[r]) <= Cap
           /\ backToRelay[r] \in Seq(SeqNo) /\ Len(backToRelay[r]) <= Cap
           /\ toClient[r] \in Seq(SeqNo) /\ Len(toClient[r]) <= Cap
  BY DEF TypeOK

(* Buffers of type S that are not too full. *)
Buffers(S) == {q \in [Relay -> Seq(S)] : \A r \in Relay : Len(q[r]) <= Cap}

(* The four buffers.                                                       *)
LEMMA BuffersType ==
    TypeOK => /\ toRelay \in Buffers(Packet) /\ toServer \in Buffers(Packet)
              /\ backToRelay \in Buffers(SeqNo) /\ toClient \in Buffers(SeqNo)
  BY DEF TypeOK, Buffers

(* A turn that takes a datagram from every buffer that has one. *)
LEMMA TakenFromType ==
    ASSUME NEW S, NEW q \in Buffers(S)
    PROVE  TakenFrom(q) \in Buffers(S)
<1>1. ASSUME NEW r \in Relay
      PROVE  TakenFrom(q)[r] \in Seq(S) /\ Len(TakenFrom(q)[r]) <= Cap
  <2>1. q[r] \in Seq(S) /\ Len(q[r]) <= Cap
    BY DEF Buffers
  <2>2. CASE Readable(q[r])
    BY <2>1, <2>2, TailElements DEF TakenFrom
  <2>3. CASE ~Readable(q[r])
    BY <2>1, <2>3 DEF TakenFrom
  <2> QED
    BY <2>2, <2>3
<1>2. TakenFrom(q) = [r \in Relay |-> TakenFrom(q)[r]]
  BY DEF TakenFrom
<1> QED
  BY <1>1, <1>2 DEF Buffers

(* One buffer changed. *)
LEMMA BufferChanged ==
    ASSUME NEW S, NEW q \in Buffers(S), NEW r \in Relay, NEW x \in Seq(S), Len(x) <= Cap
    PROVE  [q EXCEPT ![r] = x] \in Buffers(S)
  BY DEF Buffers

(* What is left in the window's slots, and the numbers move on. *)
LEMMA SlideTypes ==
    ASSUME NEW first \in SeqNo, NEW marks \in [Slots -> Flag],
           NEW n, n = SlideLength(first, marks)
    PROVE  /\ n \in Nat
           /\ Ahead(first, n) \in SeqNo
           /\ Cleared(first, marks, n) \in [Slots -> Flag]
<1>1. n \in 0..WINDOW_SIZE /\ WINDOW_SIZE \in Nat /\ MAX_SEQ_NO \in Nat /\ first \in Nat
  BY SlideLengthType, WindowAssumption, SeqNoAssumption DEF SeqNo
<1>2. Ahead(first, n) \in SeqNo
  BY <1>1 DEF Ahead, SeqNo
<1> QED
  BY <1>1, <1>2 DEF Cleared, Flag

(* A number goes through one of the relays.                                *)
LEMMA RelayOfType == \A s : RelayOf(s) \in Relay
  BY DEF RelayOf, Relay

(* TypeOK is inductive, action by action.                                  *)
LEMMA InitTypes == Init => TypeOK
<1> SUFFICES ASSUME Init PROVE TypeOK
  OBVIOUS
<1>1. /\ 0 \in SeqNo /\ 1 \in 1..NumPackets /\ 0 \in 0..NumPackets /\ 0 \in 0..MaxEarly
  BY SeqNoAssumption, InputAssumption, EarlyAssumption DEF SeqNo
<1>2. [final_packet |-> 0, seq_no |-> 0, payload |-> 1] \in Packet
  BY <1>1 DEF Packet, Flag
<1>3. /\ <<>> \in Seq(Packet) /\ <<>> \in Seq(SeqNo) /\ <<>> \in Seq(1..NumPackets)
      /\ Len(<<>>) <= Cap
  BY EmptySeq, CapAssumption
<1> QED
  BY <1>1, <1>2, <1>3 DEF Init, TypeOK, NoTraffic, Flag

(* A packet that is read and sent.                                         *)
LEMMA SendNextTypes ==
    ASSUME TypeOK, SendNext
    PROVE  TypeOK'
<1>1. /\ chunks \in 0..NumPackets /\ chunks # NumPackets /\ currseq \in SeqNo
      /\ NumPackets \in Nat /\ MAX_SEQ_NO \in Nat
  BY InputAssumption, SeqNoAssumption DEF TypeOK, SendNext, feof
<1>2. NextPacket \in Packet
  BY <1>1 DEF NextPacket, Packet, FinalFlag, Flag
<1>3. currseq \in Nat /\ Slot(currseq) \in Slots
  BY <1>1, SlotType DEF SeqNo
<1>4. chunks' \in 0..NumPackets
  BY <1>1 DEF SendNext
<1>5. currseq' \in SeqNo
  BY <1>1, <1>3 DEF SendNext, Ahead, SeqNo
<1>6. sent_packets' \in [Slots -> Packet] /\ acks' \in [Slots -> Flag]
  BY <1>2, <1>3 DEF SendNext, TypeOK, Flag
<1>7. toRelay' \in Buffers(Packet)
  <2> DEFINE r == RelayOf(currseq)
  <2>1. r \in Relay
    BY RelayOfType
  <2>2. /\ SendTo(toRelay[r], NextPacket) \in Seq(Packet)
        /\ Len(SendTo(toRelay[r], NextPacket)) <= Cap
    BY <1>2, <2>1, BufferTypes, SendToElements
  <2>3. toRelay' = [toRelay EXCEPT ![r] = SendTo(toRelay[r], NextPacket)]
    BY DEF SendNext
  <2> QED
    BY <2>1, <2>2, <2>3, BuffersType, BufferChanged
<1> QED
  BY <1>4, <1>5, <1>6, <1>7 DEF TypeOK, SendNext, serverVars, Buffers

(* A timeout only fills the relays' buffers.                               *)
LEMMA TimeoutTypes ==
    ASSUME TypeOK, Timeout
    PROVE  TypeOK'
<1>1. base \in Nat /\ currseq \in Nat /\ sent_packets \in [Slots -> Packet]
  BY DEF TypeOK, SeqNo
<1>2. \A r \in Relay : Resent(r) \in Seq(Packet)
  BY <1>1, ResentElements
<1>3. \A r \in Relay : /\ SendAll(toRelay[r], Resent(r)) \in Seq(Packet)
                       /\ Len(SendAll(toRelay[r], Resent(r))) <= Cap
  BY <1>2, BufferTypes, SendAllElements
<1>4. toRelay' \in Buffers(Packet)
  BY <1>3 DEF Timeout, Buffers
<1>5. early' \in 0..MaxEarly
  BY EarlyAssumption DEF Timeout, TypeOK
<1>6. client' \in {"running", "done"}
  BY DEF Timeout, ClientAfter
<1> QED
  BY <1>4, <1>5, <1>6 DEF TypeOK, Timeout, serverVars, Buffers

(* The marks of the client.                                                *)
LEMMA MarkedType ==
    TypeOK => Marked \in [Slots -> Flag]
  BY DEF TypeOK, Marked, Flag

(* The numbers stay below MAX_SEQ_NO also where they wrap around.          *)
LEMMA ReceiveAcksTypes ==
    ASSUME TypeOK, ReceiveAcks
    PROVE  TypeOK'
<1> DEFINE n == SlideLength(base, Marked)
<1>1. base \in SeqNo /\ slid \in Nat
  BY DEF TypeOK
<1>2. n \in Nat /\ Ahead(base, n) \in SeqNo /\ Cleared(base, Marked, n) \in [Slots -> Flag]
  BY <1>1, MarkedType, SlideTypes
<1>3. acks' = Cleared(base, Marked, n) /\ base' = Ahead(base, n) /\ slid' = slid + n
      /\ client' = ClientAfter(base')
  BY DEF ReceiveAcks
<1> HIDE DEF n
<1>4. slid' \in Nat /\ client' \in {"running", "done"}
  BY <1>1, <1>2, <1>3 DEF ClientAfter
<1>5. toClient' \in Buffers(SeqNo)
  BY BuffersType, TakenFromType DEF ReceiveAcks
<1> QED
  BY <1>2, <1>3, <1>4, <1>5 DEF TypeOK, ReceiveAcks, serverVars, Buffers

(* A relay that drops a packet.                                            *)
LEMMA DropDataTypes ==
    ASSUME TypeOK, NEW r \in Relay, DropData(r)
    PROVE  TypeOK'
<1>1. Tail(toRelay[r]) \in Seq(Packet) /\ Len(Tail(toRelay[r])) <= Cap
  BY BufferTypes, TailElements DEF DropData
<1>2. toRelay' \in Buffers(Packet)
  BY <1>1, BuffersType, BufferChanged DEF DropData
<1> QED
  BY <1>2 DEF TypeOK, DropData, clientVars, serverVars, Buffers

(* What a relay passes on. *)
LEMMA ForwardedTypes ==
    ASSUME NEW S, NEW from \in Buffers(S), NEW to \in Buffers(S), NEW r \in Relay,
           Readable(from[r])
    PROVE  /\ [from EXCEPT ![r] = Tail(from[r])] \in Buffers(S)
           /\ [to EXCEPT ![r] = SendTo(to[r], Head(from[r]))] \in Buffers(S)
<1>1. from[r] \in Seq(S) /\ Len(from[r]) <= Cap /\ to[r] \in Seq(S) /\ Len(to[r]) <= Cap
  BY DEF Buffers
<1>2. Head(from[r]) \in S /\ Tail(from[r]) \in Seq(S) /\ Len(Tail(from[r])) <= Cap
  BY <1>1, TailElements
<1>3. /\ SendTo(to[r], Head(from[r])) \in Seq(S)
      /\ Len(SendTo(to[r], Head(from[r]))) <= Cap
  BY <1>1, <1>2, SendToElements
<1> QED
  BY <1>2, <1>3, BufferChanged

(* A relay that passes on what it has.                                     *)
LEMMA ForwardTypes ==
    ASSUME TypeOK, NEW r \in Relay, Forward(r)
    PROVE  TypeOK'
<1>1. toRelay' \in Buffers(Packet) /\ toServer' \in Buffers(Packet)
  <2>1. CASE Readable(toRelay[r])
    <3>1. /\ toServer' = [toServer EXCEPT ![r] = SendTo(toServer[r], Head(toRelay[r]))]
          /\ toRelay' = [toRelay EXCEPT ![r] = Tail(toRelay[r])]
      BY <2>1 DEF Forward
    <3>2. toRelay \in Buffers(Packet) /\ toServer \in Buffers(Packet)
      BY BuffersType
    <3> QED
      BY <2>1, <3>1, <3>2, ForwardedTypes
  <2>2. CASE ~Readable(toRelay[r])
    BY <2>2, BuffersType DEF Forward
  <2> QED
    BY <2>1, <2>2
<1>2. backToRelay' \in Buffers(SeqNo) /\ toClient' \in Buffers(SeqNo)
  <2>1. CASE Readable(backToRelay[r])
    <3>1. /\ toClient' = [toClient EXCEPT ![r] = SendTo(toClient[r], Head(backToRelay[r]))]
          /\ backToRelay' = [backToRelay EXCEPT ![r] = Tail(backToRelay[r])]
      BY <2>1 DEF Forward
    <3>2. backToRelay \in Buffers(SeqNo) /\ toClient \in Buffers(SeqNo)
      BY BuffersType
    <3> QED
      BY <2>1, <3>1, <3>2, ForwardedTypes
  <2>2. CASE ~Readable(backToRelay[r])
    BY <2>2, BuffersType DEF Forward
  <2> QED
    BY <2>1, <2>2
<1> QED
  BY <1>1, <1>2 DEF TypeOK, Forward, clientVars, serverVars, Buffers

(* The marks of the server.                                                *)
LEMMA ReceivedType ==
    TypeOK => Received \in [Slots -> Flag]
  BY DEF TypeOK, Received, Flag

(* The server writes a piece of the file or nothing.                       *)
LEMMA WrittenFromType ==
    ASSUME TypeOK, NEW r \in Relay
    PROVE  WrittenFrom(r) \in Seq(1..NumPackets)
<1>1. CASE NewFrom(r)
  <2>1. Head(toServer[r]) \in Packet
    BY <1>1, BufferTypes, TailElements DEF NewFrom
  <2>2. Head(toServer[r]).payload \in 1..NumPackets
    BY <2>1 DEF Packet
  <2> QED
    BY <1>1, <2>2 DEF WrittenFrom
<1>2. CASE ~NewFrom(r)
  BY <1>2, EmptySeq DEF WrittenFrom
<1> QED
  BY <1>1, <1>2

(* A turn of the server.                                                   *)
LEMMA ServerTurnTypes ==
    ASSUME TypeOK, ServerTurn
    PROVE  TypeOK'
<1> DEFINE n == SlideLength(rcv_base, Received)
<1>1. rcv_base \in SeqNo
  BY DEF TypeOK
<1>2. n \in Nat /\ Ahead(rcv_base, n) \in SeqNo
      /\ Cleared(rcv_base, Received, n) \in [Slots -> Flag]
  BY <1>1, ReceivedType, SlideTypes
<1>3. ackd' = Cleared(rcv_base, Received, n) /\ rcv_base' = Ahead(rcv_base, n)
  BY DEF ServerTurn
<1> HIDE DEF n
<1>4. toServer' \in Buffers(Packet)
  BY BuffersType, TakenFromType DEF ServerTurn
<1>5. backToRelay' \in Buffers(SeqNo)
  <2>1. ASSUME NEW r \in Relay
        PROVE  backToRelay'[r] \in Seq(SeqNo) /\ Len(backToRelay'[r]) <= Cap
    <3>1. CASE Readable(toServer[r]) /\ Acknowledged(Head(toServer[r]).seq_no)
      <4>1. Head(toServer[r]) \in Packet
        BY <3>1, BufferTypes, TailElements
      <4>2. Head(toServer[r]).seq_no \in SeqNo
        BY <4>1 DEF Packet
      <4>3. backToRelay'[r] = SendTo(backToRelay[r], Head(toServer[r]).seq_no)
        BY <3>1 DEF ServerTurn
      <4>4. backToRelay[r] \in Seq(SeqNo) /\ Len(backToRelay[r]) <= Cap
        BY BufferTypes
      <4> DEFINE e == Head(toServer[r]).seq_no
      <4> HIDE DEF e
      <4>5. e \in SeqNo
        BY <4>2 DEF e
      <4>6. SendTo(backToRelay[r], e) \in Seq(SeqNo) /\ Len(SendTo(backToRelay[r], e)) <= Cap
        BY <4>4, <4>5, SendToElements
      <4> QED
        BY <4>3, <4>6 DEF e
    <3>2. CASE ~(Readable(toServer[r]) /\ Acknowledged(Head(toServer[r]).seq_no))
      BY <3>2, BufferTypes DEF ServerTurn
    <3> QED
      BY <3>1, <3>2
  <2>2. backToRelay' = [r \in Relay |-> backToRelay'[r]]
    BY DEF ServerTurn
  <2> QED
    BY <2>1, <2>2 DEF Buffers
<1>6. written' \in Seq(1..NumPackets)
  <2>1. WrittenFrom("R1") \in Seq(1..NumPackets) /\ WrittenFrom("R2") \in Seq(1..NumPackets)
    BY WrittenFromType DEF Relay
  <2>2. written \in Seq(1..NumPackets)
    BY DEF TypeOK
  <2>3. written \o WrittenFrom("R1") \in Seq(1..NumPackets)
    BY <2>1, <2>2, ConcatProperties
  <2> QED
    BY <2>1, <2>3, ConcatProperties DEF ServerTurn
<1> QED
  BY <1>2, <1>3, <1>4, <1>5, <1>6 DEF TypeOK, ServerTurn, clientVars, Buffers

(* Every step keeps the types.                                             *)
LEMMA StepTypes == TypeOK /\ [Next]_vars => TypeOK'
<1> SUFFICES ASSUME TypeOK, [Next]_vars PROVE TypeOK'
  OBVIOUS
<1>1. CASE UNCHANGED vars
  BY <1>1 DEF TypeOK, vars, clientVars, serverVars
<1>2. CASE Client
  BY <1>2, SendNextTypes, TimeoutTypes, ReceiveAcksTypes DEF Client
<1>3. CASE \E r \in Relay : DropData(r) \/ Forward(r)
  BY <1>3, DropDataTypes, ForwardTypes
<1>4. CASE ServerTurn
  BY <1>4, ServerTurnTypes
<1> QED
  BY <1>1, <1>2, <1>3, <1>4 DEF Next

(* Every value of the four programs stays in its type, also where the      *)
(* sequence numbers wrap around; in particular the loops that slide the    *)
(* windows end (client.c:294-300, server.c:147-164).                       *)
THEOREM TypeCorrect == Spec => []TypeOK
  BY InitTypes, StepTypes, PTL DEF Spec

-----------------------------------------------------------------------------
(* The numbers of the four programs, where they do not wrap around.        *)
LEMMA Numbers ==
    ASSUME TypeOK
    PROVE  /\ base \in Nat /\ currseq \in Nat /\ chunks \in Nat /\ rcv_base \in Nat
           /\ chunks <= NumPackets
           /\ NumPackets \in Nat /\ MAX_SEQ_NO \in Nat /\ WINDOW_SIZE \in Nat \ {0}
  BY WindowAssumption, SeqNoAssumption, InputAssumption DEF TypeOK, SeqNo

(* What the server has does not change by what the others do. *)
LEMMA ServerKeeps ==
    ASSUME UNCHANGED serverVars, NEW s
    PROVE  ServerHas(s)' <=> ServerHas(s)
  BY DEF serverVars, ServerHas, InWindow

(* What the server wrote does not change by what the others do.            *)
LEMMA ServerWroteKept ==
    ASSUME TypeOK, ServerWrote, UNCHANGED serverVars,
           currseq' \in Nat, currseq <= currseq'
    PROVE  ServerWrote'
<1>1. UNCHANGED <<rcv_base, ackd, written>>
  BY DEF serverVars
<1>2. currseq \in Nat /\ rcv_base \in Nat /\ WINDOW_SIZE \in Nat
  BY Numbers
<1>3. (rcv_base <= currseq)'
  BY <1>1, <1>2 DEF ServerWrote
<1>4. (\A s \in rcv_base .. rcv_base + WINDOW_SIZE - 1 :
          ackd[Slot(s)] = 1 => s < currseq)'
  <2>1. ASSUME NEW s \in rcv_base .. rcv_base + WINDOW_SIZE - 1, ackd[Slot(s)] = 1
        PROVE  s < currseq'
    <3>1. s < currseq /\ s \in Nat
      BY <1>2, <2>1 DEF ServerWrote
    <3> QED
      BY <1>2, <3>1
  <2> QED
    BY <1>1, <2>1 DEF Slot
<1>5. (\A s \in Nat : ServerHas(s) <=> s + 1 \in Elements(written))'
  BY <1>1, ServerKeeps DEF ServerWrote, Elements
<1>6. WrittenOnce' /\ OrderWithinWindow'
  BY <1>1 DEF ServerWrote, WrittenOnce, OrderWithinWindow
<1> QED
  BY <1>3, <1>4, <1>5, <1>6 DEF ServerWrote

(* What is under way stays genuine when nothing is added but packets that  *)
(* were sent, and the relays pass things on.                               *)
LEMMA TrafficKept ==
    ASSUME TypeOK, TrafficGenuine, UNCHANGED serverVars,
           currseq' \in Nat, currseq <= currseq',
           NEW r \in Relay,
           Elements(toRelay'[r]) \subseteq
              Elements(toRelay[r]) \cup {PacketOf(s) : s \in SentThrough(r)'},
           Elements(toServer'[r]) \subseteq Elements(toServer[r]) \cup Elements(toRelay[r]),
           Elements(backToRelay'[r]) \subseteq Elements(backToRelay[r]),
           Elements(toClient'[r]) \subseteq
              Elements(toClient[r]) \cup Elements(backToRelay[r])
    PROVE  /\ Elements(toRelay'[r]) \subseteq {PacketOf(s) : s \in SentThrough(r)'}
           /\ Elements(toServer'[r]) \subseteq {PacketOf(s) : s \in SentThrough(r)'}
           /\ \A s \in Elements(backToRelay'[r]) \cup Elements(toClient'[r]) :
                 s \in SentThrough(r)' /\ ServerHas(s)'
<1>1. SentThrough(r) \subseteq SentThrough(r)'
  BY Numbers DEF SentThrough
<1>2. {PacketOf(s) : s \in SentThrough(r)} \subseteq {PacketOf(s) : s \in SentThrough(r)'}
  BY <1>1
<1>3. /\ Elements(toRelay[r]) \subseteq {PacketOf(s) : s \in SentThrough(r)}
      /\ Elements(toServer[r]) \subseteq {PacketOf(s) : s \in SentThrough(r)}
      /\ \A s \in Elements(backToRelay[r]) \cup Elements(toClient[r]) :
            s \in SentThrough(r) /\ ServerHas(s)
  BY DEF TrafficGenuine
<1>4. \A s : ServerHas(s)' <=> ServerHas(s)
  BY ServerKeeps
<1>5. \A s \in Elements(backToRelay'[r]) \cup Elements(toClient'[r]) :
         s \in SentThrough(r)' /\ ServerHas(s)'
  BY <1>1, <1>3, <1>4
<1> QED
  BY <1>2, <1>3, <1>5

(* The same, for all relays. *)
LEMMA TrafficKeptAll ==
    ASSUME TypeOK, TrafficGenuine, UNCHANGED serverVars,
           currseq' \in Nat, currseq <= currseq',
           \A r \in Relay :
              /\ Elements(toRelay'[r]) \subseteq
                    Elements(toRelay[r]) \cup {PacketOf(s) : s \in SentThrough(r)'}
              /\ Elements(toServer'[r]) \subseteq
                    Elements(toServer[r]) \cup Elements(toRelay[r])
              /\ Elements(backToRelay'[r]) \subseteq Elements(backToRelay[r])
              /\ Elements(toClient'[r]) \subseteq
                    Elements(toClient[r]) \cup Elements(backToRelay[r])
    PROVE  TrafficGenuine'
<1>1. \A r \in Relay :
         /\ Elements(toRelay'[r]) \subseteq {PacketOf(s) : s \in SentThrough(r)'}
         /\ Elements(toServer'[r]) \subseteq {PacketOf(s) : s \in SentThrough(r)'}
         /\ \A s \in Elements(backToRelay'[r]) \cup Elements(toClient'[r]) :
               s \in SentThrough(r)' /\ ServerHas(s)'
  BY TrafficKept
<1> QED
  BY <1>1 DEF TrafficGenuine, Elements

-----------------------------------------------------------------------------
(* Agreement is inductive, action by action.                               *)
LEMMA InitAgreement == Init => Agreement
<1> SUFFICES ASSUME Init PROVE Agreement
  OBVIOUS
<1>1. /\ client = "running" /\ chunks = 0 /\ base = 0 /\ currseq = 0
      /\ toRelay = NoTraffic /\ toServer = NoTraffic
      /\ backToRelay = NoTraffic /\ toClient = NoTraffic
      /\ rcv_base = 0 /\ ackd = [s \in Slots |-> 0] /\ written = <<>>
  BY DEF Init
<1>2. WINDOW_SIZE \in Nat \ {0} /\ Len(<<>>) = 0
  BY WindowAssumption
<1>3. Elements(<<>>) = {}
  BY <1>2 DEF Elements
<1>4. WindowHoldsSent
  BY <1>1, <1>2 DEF WindowHoldsSent
<1>5. TrafficGenuine
  BY <1>1, <1>3 DEF TrafficGenuine, NoTraffic
<1>6. \A s \in Nat : ackd[Slot(s)] = 0
  BY <1>1, SlotType
<1>7. \A s \in Nat : ~ServerHas(s)
  BY <1>1, <1>6 DEF ServerHas, InWindow
<1>8. WrittenOnce /\ OrderWithinWindow
  BY <1>1, <1>2 DEF WrittenOnce, OrderWithinWindow
<1>9. \A s \in rcv_base .. rcv_base + WINDOW_SIZE - 1 : ackd[Slot(s)] # 1
  BY <1>1, <1>2, <1>6
<1> QED
  BY <1>1, <1>3, <1>4, <1>5, <1>7, <1>8, <1>9 DEF Agreement, ServerWrote

(* The new packet takes the slot of one that the window has passed.        *)
LEMMA SendNextAgreement ==
    ASSUME NoWrapAround, TypeOK, Agreement, SendNext
    PROVE  Agreement'
<1>1. /\ base \in Nat /\ currseq \in Nat /\ chunks \in Nat /\ currseq = chunks
      /\ chunks < NumPackets /\ NumPackets \in Nat /\ MAX_SEQ_NO \in Nat
      /\ WINDOW_SIZE \in Nat \ {0} /\ NumPackets + WINDOW_SIZE <= MAX_SEQ_NO
      /\ base <= currseq /\ currseq < base + WINDOW_SIZE
  <2>1. chunks # NumPackets /\ client = "running" /\ currseq < base + WINDOW_SIZE
    BY DEF SendNext, feof, WindowNotFull
  <2> QED
    BY <2>1, Numbers DEF Agreement, WindowHoldsSent, NoWrapAround
<1>2. currseq' = currseq + 1
  BY <1>1 DEF SendNext, Ahead
<1>3. NextPacket = PacketOf(currseq)
  BY <1>1 DEF NextPacket, PacketOf, FinalFlag
<1>4. NextPacket \in Packet
  <2>1. currseq \in SeqNo /\ chunks + 1 \in 1..NumPackets
    BY <1>1 DEF SeqNo
  <2> QED
    BY <2>1 DEF NextPacket, Packet, FinalFlag, Flag
<1>5. WindowHoldsSent'
  <2>1. currseq' = chunks' /\ base' = base /\ client' = client
    BY <1>1, <1>2 DEF SendNext
  <2>2. base' <= currseq' /\ currseq' <= base' + WINDOW_SIZE
    BY <1>1, <1>2, <2>1
  <2>3. ASSUME NEW s \in 0 .. currseq' - 1, currseq' <= s + WINDOW_SIZE
        PROVE  sent_packets'[Slot(s)] = PacketOf(s)
    <3>1. s \in Nat /\ s <= currseq /\ currseq < s + WINDOW_SIZE
          /\ Slot(s) \in Slots /\ Slot(currseq) \in Slots
      BY <1>1, <1>2, <2>3, SlotType
    <3>2. sent_packets' = [sent_packets EXCEPT ![Slot(currseq)] = NextPacket]
          /\ sent_packets \in [Slots -> Packet]
      BY DEF SendNext, TypeOK
    <3>3. CASE s = currseq
      BY <1>3, <3>1, <3>2, <3>3
    <3>4. CASE s < currseq
      <4>1. Slot(s) # Slot(currseq)
        BY <1>1, <3>1, <3>4, SlotsDiffer
      <4>2. sent_packets[Slot(s)] = PacketOf(s)
        BY <1>1, <3>1, <3>4 DEF Agreement, WindowHoldsSent
      <4> QED
        BY <3>1, <3>2, <4>1, <4>2
    <3> QED
      BY <1>1, <3>1, <3>3, <3>4
  <2> QED
    BY <2>1, <2>2, <2>3 DEF WindowHoldsSent, Slot
<1>6. TrafficGenuine'
  <2>1. ASSUME NEW r \in Relay
        PROVE  Elements(toRelay'[r]) \subseteq
                  Elements(toRelay[r]) \cup {PacketOf(s) : s \in SentThrough(r)'}
    <3>1. toRelay' = [toRelay EXCEPT ![RelayOf(currseq)] =
                         SendTo(toRelay[RelayOf(currseq)], NextPacket)]
          /\ toRelay \in [Relay -> Seq(Packet)]
      BY DEF SendNext, TypeOK
    <3>2. CASE r = RelayOf(currseq)
      <4>1. toRelay'[r] = SendTo(toRelay[r], NextPacket)
        BY <3>1, <3>2
      <4>2. Elements(SendTo(toRelay[r], NextPacket)) \subseteq
               Elements(toRelay[r]) \cup {NextPacket}
        BY <1>4, BufferTypes, SendToElements
      <4>3. currseq \in SentThrough(r)'
        BY <1>1, <1>2, <3>2 DEF SentThrough
      <4> QED
        BY <1>3, <4>1, <4>2, <4>3
    <3>3. CASE r # RelayOf(currseq)
      BY <3>1, <3>3
    <3> QED
      BY <3>2, <3>3
  <2>2. UNCHANGED <<serverVars, toServer, backToRelay, toClient>>
    BY DEF SendNext
  <2>3. TrafficGenuine /\ currseq' \in Nat /\ currseq <= currseq'
    BY <1>1, <1>2 DEF Agreement
  <2> QED
    BY <2>1, <2>2, <2>3, TrafficKeptAll
<1>7. ServerWrote'
  <2>1. UNCHANGED serverVars /\ currseq' \in Nat /\ currseq <= currseq'
    BY <1>1, <1>2 DEF SendNext
  <2> QED
    BY <2>1, ServerWroteKept DEF Agreement
<1> QED
  BY <1>5, <1>6, <1>7 DEF Agreement

(* A client that still runs sends again what the slots of its window hold. *)
LEMMA ResentGenuine ==
    ASSUME TypeOK, WindowHoldsSent, client = "running", NEW r \in Relay
    PROVE  /\ Resent(r) \in Seq(Packet)
           /\ Distinct(Resent(r))
           /\ Elements(Resent(r)) \subseteq
                 {PacketOf(s) : s \in {t \in base .. currseq - 1 : Unacked(r, t)}}
<1>1. /\ base \in Nat /\ currseq \in Nat /\ WINDOW_SIZE \in Nat
      /\ base <= currseq /\ currseq <= base + WINDOW_SIZE
  BY Numbers DEF WindowHoldsSent
<1>2. \A s \in base .. currseq - 1 : sent_packets[Slot(s)] = PacketOf(s)
  BY <1>1 DEF WindowHoldsSent
<1>3. sent_packets \in [Slots -> Packet]
  BY DEF TypeOK
<1>4. Unmarked(r, currseq - base) = {t \in base .. currseq - 1 : Unacked(r, t)}
  <2>1. base + (currseq - base) - 1 = currseq - 1
    BY <1>1
  <2> QED
    BY <2>1 DEF Unmarked
<1>5. /\ Resent(r) \in Seq(Packet)
      /\ Elements(Resent(r)) \subseteq
            {sent_packets[Slot(s)] : s \in Unmarked(r, currseq - base)}
      /\ Distinct(Resent(r))
  BY <1>1, <1>2, <1>3, ResentElements
<1> QED
  BY <1>2, <1>4, <1>5

(* What is sent again was sent before.                                     *)
LEMMA TimeoutAgreement ==
    ASSUME NoWrapAround, TypeOK, Agreement, Timeout
    PROVE  Agreement'
<1>1. UNCHANGED <<chunks, base, currseq, sent_packets, serverVars, toServer,
                  backToRelay, toClient>>
  BY DEF Timeout
<1>2. client = "running"
  BY DEF Timeout, Selecting
<1>3. WindowHoldsSent'
  BY <1>1, <1>2 DEF Agreement, WindowHoldsSent, Slot
<1>4. currseq' \in Nat /\ currseq <= currseq' /\ base \in Nat
  BY <1>1, Numbers
<1>5. TrafficGenuine'
  <2>1. ASSUME NEW r \in Relay
        PROVE  Elements(toRelay'[r]) \subseteq
                  Elements(toRelay[r]) \cup {PacketOf(s) : s \in SentThrough(r)'}
    <3>1. toRelay'[r] = SendAll(toRelay[r], Resent(r))
      BY DEF Timeout
    <3>2. /\ Resent(r) \in Seq(Packet)
          /\ Elements(Resent(r)) \subseteq
                {PacketOf(s) : s \in {t \in base .. currseq - 1 : Unacked(r, t)}}
      BY <1>2, ResentGenuine DEF Agreement
    <3>3. {t \in base .. currseq - 1 : Unacked(r, t)} \subseteq SentThrough(r)'
      BY <1>1, <1>4, Numbers DEF Unacked, SentThrough
    <3>4. Elements(SendAll(toRelay[r], Resent(r))) \subseteq
             Elements(toRelay[r]) \cup Elements(Resent(r))
      BY <3>2, BufferTypes, SendAllElements
    <3> QED
      BY <3>1, <3>2, <3>3, <3>4
  <2> QED
    BY <1>1, <1>4, <2>1, TrafficKeptAll DEF Agreement
<1>6. ServerWrote'
  BY <1>1, <1>4, ServerWroteKept DEF Agreement
<1> QED
  BY <1>3, <1>5, <1>6 DEF Agreement

(* What the client's window moves over.  While the client runs, its window *)
(* is full when it selects, or the whole file was sent; so base passes     *)
(* currseq at most at the end of the file.                                 *)
LEMMA ClientSlide ==
    ASSUME NoWrapAround, TypeOK, WindowHoldsSent, ReceiveAcks, NEW n,
           n = SlideLength(base, Marked)
    PROVE  /\ n \in 0..WINDOW_SIZE
           /\ base' = base + n /\ slid' = slid + n
           /\ acks' = Cleared(base, Marked, n)
           /\ base <= currseq /\ currseq <= base + WINDOW_SIZE
           /\ \A s \in base .. base + n - 1 : Marked[Slot(s)] = 1
           /\ \A s \in base + n .. base + WINDOW_SIZE - 1 :
                 acks'[Slot(s)] = Marked[Slot(s)]
           /\ \A s \in base + WINDOW_SIZE .. base + n + WINDOW_SIZE - 1 :
                 acks'[Slot(s)] = 0
           /\ client' = ClientAfter(base')
           /\ feof \/ currseq = base + WINDOW_SIZE
<1>1. /\ base \in Nat /\ currseq \in Nat /\ WINDOW_SIZE \in Nat \ {0}
      /\ MAX_SEQ_NO \in Nat /\ NumPackets \in Nat /\ chunks \in Nat
      /\ chunks <= NumPackets /\ NumPackets + WINDOW_SIZE <= MAX_SEQ_NO
      /\ currseq = chunks
  BY Numbers DEF NoWrapAround, WindowHoldsSent
<1>2. client = "running" /\ ~(WindowNotFull /\ ~feof)
  BY DEF ReceiveAcks, Selecting
<1>3. base <= currseq /\ currseq <= base + WINDOW_SIZE
  BY <1>2 DEF WindowHoldsSent
<1>4. base + WINDOW_SIZE <= MAX_SEQ_NO
  BY <1>1, <1>3
<1>5. Marked \in [Slots -> Flag]
  BY MarkedType
<1>6. /\ acks' = Cleared(base, Marked, n) /\ base' = Ahead(base, n)
      /\ slid' = slid + n /\ client' = ClientAfter(base')
  BY DEF ReceiveAcks
<1>7. /\ n \in 0..WINDOW_SIZE
      /\ Ahead(base, n) = base + n
      /\ \A s \in base .. base + n - 1 : Marked[Slot(s)] = 1
      /\ \A s \in base + n .. base + WINDOW_SIZE - 1 :
            Cleared(base, Marked, n)[Slot(s)] = Marked[Slot(s)]
      /\ \A s \in base + WINDOW_SIZE .. base + n + WINDOW_SIZE - 1 :
            Cleared(base, Marked, n)[Slot(s)] = 0
  BY <1>1, <1>4, <1>5, SlideFacts
<1>8. feof \/ currseq = base + WINDOW_SIZE
  BY <1>1, <1>2, <1>3 DEF WindowNotFull
<1> QED
  BY <1>3, <1>6, <1>7, <1>8

(* Answers only move the window forward.                                   *)
LEMMA ReceiveAcksAgreement ==
    ASSUME NoWrapAround, TypeOK, Agreement, ReceiveAcks
    PROVE  Agreement'
<1> DEFINE n == SlideLength(base, Marked)
<1>1. UNCHANGED <<chunks, currseq, sent_packets, serverVars, toRelay, toServer, backToRelay>>
  BY DEF ReceiveAcks
<1>2. /\ n \in 0..WINDOW_SIZE /\ base' = base + n
      /\ base <= currseq /\ currseq <= base + WINDOW_SIZE
      /\ client' = ClientAfter(base')
      /\ feof \/ currseq = base + WINDOW_SIZE
  BY ClientSlide DEF Agreement
<1> HIDE DEF n
<1>3. base \in Nat /\ currseq \in Nat /\ WINDOW_SIZE \in Nat
  BY Numbers
<1>4. WindowHoldsSent'
  <2>1. ASSUME client' = "running"
        PROVE  base' <= currseq' /\ currseq' <= base' + WINDOW_SIZE
    <3>1. ~(feof /\ ~(base' < currseq))
      BY <1>2, <2>1 DEF ClientAfter
    <3> QED
      BY <1>1, <1>2, <1>3, <3>1
  <2> QED
    BY <1>1, <2>1 DEF Agreement, WindowHoldsSent, Slot
<1>5. currseq' \in Nat /\ currseq <= currseq'
  BY <1>1, <1>3
<1>6. TrafficGenuine'
  <2>1. ASSUME NEW r \in Relay
        PROVE  Elements(toClient'[r]) \subseteq Elements(toClient[r])
    <3>1. toClient'[r] = IF Readable(toClient[r]) THEN Tail(toClient[r]) ELSE toClient[r]
      BY DEF ReceiveAcks, TakenFrom
    <3>2. CASE Readable(toClient[r])
      BY <3>1, <3>2, BufferTypes, TailElements
    <3>3. CASE ~Readable(toClient[r])
      BY <3>1, <3>3
    <3> QED
      BY <3>2, <3>3
  <2> QED
    BY <1>1, <1>5, <2>1, TrafficKeptAll DEF Agreement
<1>7. ServerWrote'
  BY <1>1, <1>5, ServerWroteKept DEF Agreement
<1> QED
  BY <1>4, <1>6, <1>7 DEF Agreement

(* A packet that is lost leaves the others genuine.                        *)
LEMMA DropDataAgreement ==
    ASSUME TypeOK, Agreement, NEW r \in Relay, DropData(r)
    PROVE  Agreement'
<1>1. /\ UNCHANGED <<client, chunks, base, currseq, sent_packets, serverVars, toServer,
                     backToRelay, toClient>>
      /\ Readable(toRelay[r])
      /\ toRelay' = [toRelay EXCEPT ![r] = Tail(toRelay[r])]
  BY DEF DropData, clientVars
<1>2. WindowHoldsSent'
  BY <1>1 DEF Agreement, WindowHoldsSent, Slot
<1>3. currseq' \in Nat /\ currseq <= currseq'
  BY <1>1, Numbers
<1>4. TrafficGenuine'
  <2>1. ASSUME NEW x \in Relay
        PROVE  Elements(toRelay'[x]) \subseteq Elements(toRelay[x])
    <3>1. CASE x = r
      <4>1. toRelay'[x] = Tail(toRelay[x])
        BY <1>1, <3>1 DEF TypeOK
      <4> QED
        BY <1>1, <3>1, <4>1, BufferTypes, TailElements
    <3>2. CASE x # r
      BY <1>1, <3>2 DEF TypeOK
    <3> QED
      BY <3>1, <3>2
  <2> QED
    BY <1>1, <1>3, <2>1, TrafficKeptAll DEF Agreement
<1>5. ServerWrote'
  BY <1>1, <1>3, ServerWroteKept DEF Agreement
<1> QED
  BY <1>2, <1>4, <1>5 DEF Agreement

(* What a relay passes on was in one of its buffers and is then in the     *)
(* other, or lost.                                                         *)
PassedOn(from, to, newFrom, newTo, r) ==
    \/ /\ Readable(from[r])
       /\ newFrom = [from EXCEPT ![r] = Tail(from[r])]
       /\ newTo = [to EXCEPT ![r] = SendTo(to[r], Head(from[r]))]
    \/ newFrom = from /\ newTo = to

(* A relay passes data one way and acknowledgements the other.             *)
LEMMA ForwardPassesOn ==
    ASSUME NEW r \in Relay, Forward(r)
    PROVE  /\ PassedOn(toRelay, toServer, toRelay', toServer', r)
           /\ PassedOn(backToRelay, toClient, backToRelay', toClient', r)
  BY DEF Forward, PassedOn

(* What a relay passes on was in its buffer.                               *)
LEMMA ForwardedElements ==
    ASSUME NEW S, NEW from \in Buffers(S), NEW to \in Buffers(S), NEW r \in Relay,
           NEW x \in Relay,
           NEW newFrom, NEW newTo, PassedOn(from, to, newFrom, newTo, r)
    PROVE  /\ Elements(newFrom[x]) \subseteq Elements(from[x])
           /\ Elements(newTo[x]) \subseteq Elements(to[x]) \cup Elements(from[x])
<1>1. /\ from[r] \in Seq(S) /\ Len(from[r]) <= Cap
      /\ to[r] \in Seq(S) /\ Len(to[r]) <= Cap
      /\ from \in [Relay -> Seq(S)] /\ to \in [Relay -> Seq(S)]
  BY DEF Buffers
<1>2. CASE newFrom = from /\ newTo = to
  BY <1>2
<1>3. CASE /\ Readable(from[r])
           /\ newFrom = [from EXCEPT ![r] = Tail(from[r])]
           /\ newTo = [to EXCEPT ![r] = SendTo(to[r], Head(from[r]))]
  <2>1. /\ Head(from[r]) \in S /\ Head(from[r]) \in Elements(from[r])
        /\ Elements(Tail(from[r])) \subseteq Elements(from[r])
    BY <1>1, <1>3, TailElements
  <2>2. Elements(SendTo(to[r], Head(from[r]))) \subseteq Elements(to[r]) \cup {Head(from[r])}
    BY <1>1, <2>1, SendToElements
  <2>3. CASE x = r
    <3>1. newFrom[x] = Tail(from[r]) /\ newTo[x] = SendTo(to[r], Head(from[r]))
      BY <1>1, <1>3, <2>3
    <3> QED
      BY <2>1, <2>2, <2>3, <3>1
  <2>4. CASE x # r
    BY <1>1, <1>3, <2>4
  <2> QED
    BY <2>3, <2>4
<1> QED
  BY <1>2, <1>3 DEF PassedOn

(* What is passed on stays genuine.                                        *)
LEMMA ForwardAgreement ==
    ASSUME TypeOK, Agreement, NEW r \in Relay, Forward(r)
    PROVE  Agreement'
<1>1. UNCHANGED <<client, chunks, base, currseq, sent_packets, serverVars>>
  BY DEF Forward, clientVars
<1>2. PassedOn(toRelay, toServer, toRelay', toServer', r)
  BY ForwardPassesOn
<1>3. PassedOn(backToRelay, toClient, backToRelay', toClient', r)
  BY ForwardPassesOn
<1>4. WindowHoldsSent'
  BY <1>1 DEF Agreement, WindowHoldsSent, Slot
<1>5. currseq' \in Nat /\ currseq <= currseq'
  BY <1>1, Numbers
<1>6. TrafficGenuine'
  <2>0. /\ toRelay \in Buffers(Packet) /\ toServer \in Buffers(Packet)
        /\ backToRelay \in Buffers(SeqNo) /\ toClient \in Buffers(SeqNo)
    BY BuffersType
  <2>1. ASSUME NEW x \in Relay
        PROVE  /\ Elements(toRelay'[x]) \subseteq Elements(toRelay[x])
               /\ Elements(toServer'[x]) \subseteq
                     Elements(toServer[x]) \cup Elements(toRelay[x])
    BY <1>2, <2>0, ForwardedElements
  <2>2. ASSUME NEW x \in Relay
        PROVE  /\ Elements(backToRelay'[x]) \subseteq Elements(backToRelay[x])
               /\ Elements(toClient'[x]) \subseteq
                     Elements(toClient[x]) \cup Elements(backToRelay[x])
    BY <1>3, <2>0, ForwardedElements
  <2> QED
    BY <1>1, <1>5, <2>1, <2>2, TrafficKeptAll DEF Agreement
<1>7. ServerWrote'
  BY <1>1, <1>5, ServerWroteKept DEF Agreement
<1> QED
  BY <1>4, <1>6, <1>7 DEF Agreement

-----------------------------------------------------------------------------
(* A sequence without repetitions has as many elements as its length.      *)
LEMMA CountElements ==
    ASSUME NEW S, NEW q \in Seq(S), Distinct(q)
    PROVE  IsFiniteSet(Elements(q)) /\ Cardinality(Elements(q)) = Len(q)
<1>1. Len(q) \in Nat
  BY LenProperties
<1> DEFINE f == [i \in 1..Len(q) |-> q[i]]
<1>2. f \in Bijection(1..Len(q), Elements(q))
  BY DEF Bijection, Injection, Surjection, IsInjective, Elements, Distinct
<1>3. ExistsBijection(1..Len(q), Elements(q))
  BY <1>2 DEF ExistsBijection
<1>4. IsFiniteSet(Elements(q))
  BY <1>1, <1>3, FS_NatBijection
<1>5. Cardinality(Elements(q)) = Len(q)
  BY <1>1, <1>3, FS_CountingElements
<1> QED
  BY <1>4, <1>5

(* A sequence of pieces that a window at b allows, in such an order as the *)
(* server writes them.                                                     *)
Ordered(w) == \A i \in 1..Len(w) : w[i] - i < WINDOW_SIZE /\ i - w[i] < WINDOW_SIZE

Fits(w, b) ==
    /\ w \in Seq(Nat) /\ Distinct(w) /\ Ordered(w)
    /\ 1..b \subseteq Elements(w)
    /\ Elements(w) \subseteq 1 .. b + WINDOW_SIZE

(* It has all pieces behind the window and at most the window more.        *)
LEMMA LengthWithinWindow ==
    ASSUME NEW b \in Nat, NEW w \in Seq(Nat), Distinct(w),
           1..b \subseteq Elements(w), Elements(w) \subseteq 1 .. b + WINDOW_SIZE
    PROVE  b <= Len(w) /\ Len(w) <= b + WINDOW_SIZE
<1>1. WINDOW_SIZE \in Nat /\ b + WINDOW_SIZE \in Int /\ b \in Int /\ 1 \in Int
  BY WindowAssumption
<1>2. IsFiniteSet(Elements(w)) /\ Cardinality(Elements(w)) = Len(w)
  BY CountElements
<1>3. Cardinality(1..b) = b
  BY <1>1, FS_Interval
<1>4. IsFiniteSet(1 .. b + WINDOW_SIZE) /\ Cardinality(1 .. b + WINDOW_SIZE) = b + WINDOW_SIZE
  BY <1>1, FS_Interval
<1>5. Cardinality(1..b) <= Cardinality(Elements(w))
  BY <1>2, FS_Subset
<1>6. Cardinality(Elements(w)) <= Cardinality(1 .. b + WINDOW_SIZE)
  BY <1>4, FS_Subset
<1> QED
  BY <1>2, <1>3, <1>4, <1>5, <1>6

(* So a piece of the window that is written now comes less than a window   *)
(* away from its place.                                                    *)
LEMMA AppendFits ==
    ASSUME NEW b \in Nat, NEW w, Fits(w, b),
           NEW p \in b + 1 .. b + WINDOW_SIZE, p \notin Elements(w)
    PROVE  Fits(Append(w, p), b) /\ Elements(Append(w, p)) = Elements(w) \cup {p}
<1> DEFINE v == Append(w, p)
<1>1. w \in Seq(Nat) /\ p \in Nat /\ WINDOW_SIZE \in Nat /\ Len(w) \in Nat
  BY WindowAssumption, LenProperties DEF Fits
<1>2. /\ v \in Seq(Nat) /\ Distinct(v) /\ Elements(v) = Elements(w) \cup {p}
  BY <1>1, AppendElements DEF Fits
<1>3. /\ Len(v) = Len(w) + 1
      /\ \A i \in 1..Len(w) : v[i] = w[i]
      /\ v[Len(w) + 1] = p
  BY <1>1, AppendProperties
<1> HIDE DEF v
<1>4. 1..b \subseteq Elements(v) /\ Elements(v) \subseteq 1 .. b + WINDOW_SIZE
  BY <1>1, <1>2 DEF Fits
<1>5. b <= Len(w) /\ Len(v) <= b + WINDOW_SIZE
  BY <1>1, <1>2, <1>4, LengthWithinWindow DEF Fits
<1>6. Ordered(v)
  <2>1. ASSUME NEW i \in 1..Len(v)
        PROVE  v[i] - i < WINDOW_SIZE /\ i - v[i] < WINDOW_SIZE
    <3>1. CASE i \in 1..Len(w)
      BY <1>3, <3>1 DEF Fits, Ordered
    <3>2. CASE i = Len(w) + 1
      <4>1. v[i] = p
        BY <1>3, <3>2
      <4>2. p - i < WINDOW_SIZE /\ i - p < WINDOW_SIZE
        BY <1>1, <1>3, <1>5, <3>2
      <4> QED
        BY <4>1, <4>2
    <3> QED
      BY <1>1, <1>3, <3>1, <3>2
  <2> QED
    BY <2>1 DEF Ordered
<1> QED
  BY <1>2, <1>4, <1>6 DEF Fits, v

-----------------------------------------------------------------------------
(* The number of the packet the server reads from relay r. *)
Num(r) == Head(toServer[r]).seq_no

(* The packet that the server reads.                                       *)
LEMMA HeadGenuine ==
    ASSUME TypeOK, TrafficGenuine, NEW r \in Relay, Readable(toServer[r])
    PROVE  /\ Num(r) \in SentThrough(r) /\ Num(r) \in Nat /\ Num(r) \in SeqNo
           /\ Num(r) < currseq /\ RelayOf(Num(r)) = r
           /\ Head(toServer[r]) = PacketOf(Num(r))
           /\ Head(toServer[r]) \in Elements(toServer[r])
<1>1. Head(toServer[r]) \in Packet /\ Head(toServer[r]) \in Elements(toServer[r])
  BY BufferTypes, TailElements
<1>2. PICK s \in SentThrough(r) : Head(toServer[r]) = PacketOf(s)
  BY <1>1 DEF TrafficGenuine
<1>3. Num(r) = s
  BY <1>2 DEF Num, PacketOf
<1>4. Num(r) \in SeqNo
  BY <1>1 DEF Num, Packet
<1> QED
  BY <1>1, <1>2, <1>3, <1>4, Numbers DEF SentThrough

(* The server has room for its window behind the file.                     *)
LEMMA ServerSlide ==
    ASSUME NoWrapAround, TypeOK, Agreement, ServerTurn, NEW n,
           n = SlideLength(rcv_base, Received)
    PROVE  /\ n \in 0..WINDOW_SIZE
           /\ rcv_base' = rcv_base + n
           /\ \A s \in rcv_base .. rcv_base + n - 1 : Received[Slot(s)] = 1
           /\ \A s \in rcv_base + n .. rcv_base + WINDOW_SIZE - 1 :
                 ackd'[Slot(s)] = Received[Slot(s)]
           /\ \A s \in rcv_base + WINDOW_SIZE .. rcv_base + n + WINDOW_SIZE - 1 :
                 ackd'[Slot(s)] = 0
<1>1. rcv_base \in Nat /\ rcv_base + WINDOW_SIZE <= MAX_SEQ_NO
  <2>1. rcv_base <= currseq /\ currseq = chunks
    BY DEF Agreement, ServerWrote, WindowHoldsSent
  <2> QED
    BY <2>1, Numbers DEF NoWrapAround
<1>2. ackd' = Cleared(rcv_base, Received, n) /\ rcv_base' = Ahead(rcv_base, n)
  BY DEF ServerTurn
<1>3. Received \in [Slots -> Flag]
  BY ReceivedType
<1> QED
  BY <1>1, <1>2, <1>3, SlideFacts

(* A slot of the window is marked when its packet was, or is read now.     *)
LEMMA ReceivedMarks ==
    ASSUME TypeOK, TrafficGenuine,
           NEW s \in rcv_base .. rcv_base + WINDOW_SIZE - 1
    PROVE  Received[Slot(s)] = 1 <=>
              ackd[Slot(s)] = 1 \/ \E r \in Relay : NewFrom(r) /\ s = Num(r)
<1>1. rcv_base \in Nat /\ WINDOW_SIZE \in Nat /\ s \in Nat /\ Slot(s) \in Slots
  BY Numbers, SlotType
<1>2. ASSUME NEW r \in Relay, NewFrom(r)
      PROVE  Slot(Num(r)) = Slot(s) <=> s = Num(r)
  <2>1. Num(r) \in Nat /\ InWindow(Num(r))
    BY <1>2, HeadGenuine DEF NewFrom, IsNew, Num
  <2>2. Num(r) \in rcv_base .. rcv_base + WINDOW_SIZE - 1
    BY <1>1, <2>1 DEF InWindow
  <2> QED
    BY <1>1, <2>2, SlotInjective
<1>3. Received[Slot(s)] =
         IF \E r \in Relay : NewFrom(r) /\ Slot(Num(r)) = Slot(s) THEN 1 ELSE ackd[Slot(s)]
  BY <1>1 DEF Received, Num
<1> QED
  BY <1>2, <1>3

(* After a turn the server has what it had and what it has written now.    *)
LEMMA TurnHas ==
    ASSUME NoWrapAround, TypeOK, Agreement, ServerTurn
    PROVE  \A s \in Nat : ServerHas(s)' <=>
              ServerHas(s) \/ \E r \in Relay : NewFrom(r) /\ s = Num(r)
<1> DEFINE n == SlideLength(rcv_base, Received)
           New(s) == \E r \in Relay : NewFrom(r) /\ s = Num(r)
<1>1. rcv_base \in Nat /\ WINDOW_SIZE \in Nat
  BY Numbers
<1>2. /\ n \in 0..WINDOW_SIZE
      /\ rcv_base' = rcv_base + n
      /\ \A s \in rcv_base .. rcv_base + n - 1 : Received[Slot(s)] = 1
      /\ \A s \in rcv_base + n .. rcv_base + WINDOW_SIZE - 1 :
            ackd'[Slot(s)] = Received[Slot(s)]
      /\ \A s \in rcv_base + WINDOW_SIZE .. rcv_base + n + WINDOW_SIZE - 1 :
            ackd'[Slot(s)] = 0
  BY ServerSlide
<1> HIDE DEF n
<1>3. \A s \in rcv_base .. rcv_base + WINDOW_SIZE - 1 :
         Received[Slot(s)] = 1 <=> ackd[Slot(s)] = 1 \/ New(s)
  BY ReceivedMarks DEF Agreement
<1>4. ASSUME NEW s \in Nat, New(s)
      PROVE  s \in rcv_base .. rcv_base + WINDOW_SIZE - 1
  <2>1. InWindow(s)
    BY <1>4 DEF NewFrom, IsNew, Num
  <2> QED
    BY <1>1, <2>1 DEF InWindow
<1> HIDE DEF New
<1> SUFFICES ASSUME NEW s \in Nat
             PROVE  ServerHas(s)' <=> ServerHas(s) \/ New(s)
  BY DEF New
<1>5. ServerHas(s)' <=>
         \/ s < rcv_base + n
         \/ s >= rcv_base + n /\ s < rcv_base + n + WINDOW_SIZE /\ ackd'[Slot(s)] = 1
  BY <1>2 DEF ServerHas, InWindow, Slot
<1>6. ServerHas(s) <=>
         \/ s < rcv_base
         \/ s >= rcv_base /\ s < rcv_base + WINDOW_SIZE /\ ackd[Slot(s)] = 1
  BY DEF ServerHas, InWindow
<1>7. CASE s < rcv_base
  BY <1>1, <1>2, <1>5, <1>6, <1>7
<1>8. CASE s \in rcv_base .. rcv_base + n - 1
  <2>1. s \in rcv_base .. rcv_base + WINDOW_SIZE - 1 /\ s < rcv_base + n /\ s >= rcv_base
        /\ s < rcv_base + WINDOW_SIZE
    BY <1>1, <1>2, <1>8
  <2> QED
    BY <1>2, <1>3, <1>5, <1>6, <1>8, <2>1
<1>9. CASE s \in rcv_base + n .. rcv_base + WINDOW_SIZE - 1
  <2>1. /\ s \in rcv_base .. rcv_base + WINDOW_SIZE - 1
        /\ ~(s < rcv_base + n) /\ s >= rcv_base + n /\ s < rcv_base + n + WINDOW_SIZE
        /\ ~(s < rcv_base) /\ s >= rcv_base /\ s < rcv_base + WINDOW_SIZE
    BY <1>1, <1>2, <1>9
  <2> QED
    BY <1>2, <1>3, <1>5, <1>6, <1>9, <2>1
<1>10. CASE s \in rcv_base + WINDOW_SIZE .. rcv_base + n + WINDOW_SIZE - 1
  <2>1. /\ s \notin rcv_base .. rcv_base + WINDOW_SIZE - 1
        /\ ~(s < rcv_base + n) /\ ~(s < rcv_base) /\ ~(s < rcv_base + WINDOW_SIZE)
    BY <1>1, <1>2, <1>10
  <2>2. ackd'[Slot(s)] # 1
    BY <1>2, <1>10
  <2> QED
    BY <1>4, <1>5, <1>6, <2>1, <2>2
<1>11. CASE s >= rcv_base + n + WINDOW_SIZE
  <2>1. /\ s \notin rcv_base .. rcv_base + WINDOW_SIZE - 1
        /\ ~(s < rcv_base + n) /\ ~(s < rcv_base) /\ ~(s < rcv_base + WINDOW_SIZE)
        /\ ~(s < rcv_base + n + WINDOW_SIZE)
    BY <1>1, <1>2, <1>11
  <2> QED
    BY <1>4, <1>5, <1>6, <2>1
<1>12. \/ s < rcv_base
       \/ s \in rcv_base .. rcv_base + n - 1
       \/ s \in rcv_base + n .. rcv_base + WINDOW_SIZE - 1
       \/ s \in rcv_base + WINDOW_SIZE .. rcv_base + n + WINDOW_SIZE - 1
       \/ s >= rcv_base + n + WINDOW_SIZE
  BY <1>1, <1>2
<1> QED
  BY <1>7, <1>8, <1>9, <1>10, <1>11, <1>12

(* What is written in a turn is a piece of the window the server does not  *)
(* have, and the two relays' pieces differ.                                *)
LEMMA WrittenFits ==
    ASSUME TypeOK, Agreement
    PROVE  Fits(written, rcv_base)
<1>1. /\ rcv_base \in Nat /\ WINDOW_SIZE \in Nat /\ written \in Seq(1..NumPackets)
      /\ NumPackets \in Nat /\ Len(written) \in Nat
  BY Numbers, LenProperties DEF TypeOK
<1>2. written \in Seq(Nat)
  <2>1. 1..NumPackets \subseteq Nat
    BY <1>1
  <2> QED
    BY <1>1, <2>1, SeqMonotonic
<1>3. \A s \in Nat : ServerHas(s) <=> s + 1 \in Elements(written)
  BY DEF Agreement, ServerWrote
<1>4. Distinct(written) /\ Ordered(written)
  BY DEF Agreement, ServerWrote, WrittenOnce, OrderWithinWindow, Distinct, Ordered
<1>5. ASSUME NEW p \in 1..rcv_base
      PROVE  p \in Elements(written)
  <2>1. p - 1 \in Nat /\ (p - 1) + 1 = p /\ p - 1 < rcv_base
    BY <1>1
  <2> QED
    BY <1>3, <2>1 DEF ServerHas
<1>6. ASSUME NEW p \in Elements(written)
      PROVE  p \in 1 .. rcv_base + WINDOW_SIZE
  <2>1. p \in 1..NumPackets
    BY <1>1, ElementOfSeq DEF Elements
  <2>2. p - 1 \in Nat /\ (p - 1) + 1 = p
    BY <1>1, <2>1
  <2>3. ServerHas(p - 1)
    BY <1>3, <2>2
  <2>4. p - 1 < rcv_base + WINDOW_SIZE
    BY <1>1, <2>2, <2>3 DEF ServerHas, InWindow
  <2> QED
    BY <1>1, <2>1, <2>4
<1> QED
  BY <1>2, <1>4, <1>5, <1>6 DEF Fits

(* Writing a packet of the window that is new.                             *)
LEMMA WriteFrom ==
    ASSUME TypeOK, Agreement, NEW r \in Relay, NEW w, Fits(w, rcv_base),
           \A p \in Elements(w) :
              \/ p \in Elements(written)
              \/ \E x \in Relay \ {r} : NewFrom(x) /\ p = Num(x) + 1
    PROVE  /\ Fits(w \o WrittenFrom(r), rcv_base)
           /\ \A p : p \in Elements(w \o WrittenFrom(r)) <=>
                 p \in Elements(w) \/ (NewFrom(r) /\ p = Num(r) + 1)
<1>1. w \in Seq(Nat)
  BY DEF Fits
<1>2. CASE ~NewFrom(r)
  <2>1. w \o WrittenFrom(r) = w
    BY <1>1, <1>2, ConcatEmptySeq DEF WrittenFrom
  <2> QED
    BY <1>2, <2>1
<1>3. CASE NewFrom(r)
  <2>1. /\ Num(r) \in Nat /\ RelayOf(Num(r)) = r /\ Head(toServer[r]) = PacketOf(Num(r))
    BY <1>3, HeadGenuine DEF NewFrom, Agreement
  <2>2. InWindow(Num(r)) /\ ackd[Slot(Num(r))] = 0
    BY <1>3 DEF NewFrom, IsNew, Num
  <2>3. WrittenFrom(r) = <<Num(r) + 1>>
    BY <1>3, <2>1 DEF WrittenFrom, PacketOf
  <2>4. w \o WrittenFrom(r) = Append(w, Num(r) + 1)
    BY <1>1, <2>1, <2>3, AppendIsConcat
  <2>5. rcv_base \in Nat /\ WINDOW_SIZE \in Nat
    BY Numbers
  <2>6. Num(r) + 1 \in rcv_base + 1 .. rcv_base + WINDOW_SIZE
    BY <2>1, <2>2, <2>5 DEF InWindow
  <2>7. Num(r) + 1 \notin Elements(w)
    <3>1. ~ServerHas(Num(r))
      BY <2>1, <2>2, <2>5 DEF ServerHas, InWindow
    <3>2. Num(r) + 1 \notin Elements(written)
      BY <2>1, <3>1 DEF Agreement, ServerWrote
    <3>3. ASSUME NEW x \in Relay \ {r}, NewFrom(x), Num(r) + 1 = Num(x) + 1
          PROVE  FALSE
      <4>1. Num(x) \in Nat /\ RelayOf(Num(x)) = x
        BY <3>3, HeadGenuine DEF NewFrom, Agreement
      <4>2. Num(x) = Num(r)
        BY <2>1, <3>3, <4>1
      <4> QED
        BY <2>1, <4>1, <4>2
    <3> QED
      BY <3>2, <3>3
  <2>8. /\ Fits(Append(w, Num(r) + 1), rcv_base)
        /\ Elements(Append(w, Num(r) + 1)) = Elements(w) \cup {Num(r) + 1}
    BY <2>5, <2>6, <2>7, AppendFits
  <2> QED
    BY <1>3, <2>4, <2>8
<1> QED
  BY <1>2, <1>3

(* The two packets of a turn are written one after the other.              *)
LEMMA TurnWrites ==
    ASSUME TypeOK, Agreement, ServerTurn
    PROVE  /\ Fits(written', rcv_base)
           /\ \A p : p \in Elements(written') <=>
                 \/ p \in Elements(written)
                 \/ \E r \in Relay : NewFrom(r) /\ p = Num(r) + 1
<1> DEFINE one == written \o WrittenFrom("R1")
<1>1. Fits(written, rcv_base)
  BY WrittenFits
<1>2. "R1" \in Relay /\ "R2" \in Relay /\ "R1" \in Relay \ {"R2"} /\ Relay = {"R1", "R2"}
  BY DEF Relay
<1>3. /\ Fits(one, rcv_base)
      /\ \A p : p \in Elements(one) <=>
            p \in Elements(written) \/ (NewFrom("R1") /\ p = Num("R1") + 1)
  BY <1>1, <1>2, WriteFrom
<1>4. written' = one \o WrittenFrom("R2")
  BY DEF ServerTurn
<1> HIDE DEF one
<1>5. \A p \in Elements(one) :
         \/ p \in Elements(written)
         \/ \E x \in Relay \ {"R2"} : NewFrom(x) /\ p = Num(x) + 1
  BY <1>2, <1>3
<1>6. /\ Fits(written', rcv_base)
      /\ \A p : p \in Elements(written') <=>
            p \in Elements(one) \/ (NewFrom("R2") /\ p = Num("R2") + 1)
  BY <1>2, <1>3, <1>4, <1>5, WriteFrom
<1> QED
  BY <1>2, <1>3, <1>6

(* What the server acknowledges it has then written.                       *)
LEMMA AcknowledgedHas ==
    ASSUME NoWrapAround, TypeOK, Agreement, ServerTurn, NEW r \in Relay,
           Readable(toServer[r]), NEW s, s = Num(r), Acknowledged(s)
    PROVE  ServerHas(s)'
<1>1. s \in Nat /\ rcv_base \in Nat /\ WINDOW_SIZE \in Nat
  BY HeadGenuine, Numbers DEF Agreement
<1>2. ServerHas(s)' <=> ServerHas(s) \/ \E x \in Relay : NewFrom(x) /\ s = Num(x)
  BY <1>1, TurnHas
<1>3. CASE InWindow(s)
  <2>1. ackd[Slot(s)] \in {0, 1}
    BY <1>1, SlotType DEF TypeOK, Flag
  <2> QED
    BY <1>2, <1>3, <2>1 DEF ServerHas, NewFrom, IsNew, Num
<1>4. CASE InPreviousWindow(s)
  <2>1. s < rcv_base
    BY <1>1, <1>4 DEF InPreviousWindow
  <2> QED
    BY <1>2, <2>1 DEF ServerHas
<1> QED
  BY <1>3, <1>4 DEF Acknowledged

(* The two buffers of the server's turn. *)
LEMMA TurnElements ==
    ASSUME TypeOK, ServerTurn, NEW r \in Relay
    PROVE  /\ Elements(toServer'[r]) \subseteq Elements(toServer[r])
           /\ \A s \in Elements(backToRelay'[r]) :
                 \/ s \in Elements(backToRelay[r])
                 \/ Readable(toServer[r]) /\ s = Num(r) /\ Acknowledged(s)
<1>1. toServer'[r] = IF Readable(toServer[r]) THEN Tail(toServer[r]) ELSE toServer[r]
  BY DEF ServerTurn, TakenFrom
<1>2. Elements(toServer'[r]) \subseteq Elements(toServer[r])
  <2>1. CASE Readable(toServer[r])
    BY <1>1, <2>1, BufferTypes, TailElements
  <2>2. CASE ~Readable(toServer[r])
    BY <1>1, <2>2
  <2> QED
    BY <2>1, <2>2
<1>3. CASE Readable(toServer[r]) /\ Acknowledged(Num(r))
  <2>1. backToRelay'[r] = SendTo(backToRelay[r], Num(r))
    BY <1>3 DEF ServerTurn, Num
  <2>2. Num(r) \in SeqNo
    <3>1. Head(toServer[r]) \in Packet
      BY <1>3, BufferTypes, TailElements
    <3> QED
      BY <3>1 DEF Num, Packet
  <2>3. Elements(SendTo(backToRelay[r], Num(r))) \subseteq
           Elements(backToRelay[r]) \cup {Num(r)}
    BY <2>2, BufferTypes, SendToElements
  <2> QED
    BY <1>2, <1>3, <2>1, <2>3
<1>4. CASE ~(Readable(toServer[r]) /\ Acknowledged(Num(r)))
  <2>1. backToRelay'[r] = backToRelay[r]
    BY <1>4 DEF ServerTurn, Num
  <2> QED
    BY <1>2, <2>1
<1> QED
  BY <1>3, <1>4

(* The turn of the server keeps what it has, marked and wrote in step.     *)
LEMMA ServerTurnAgreement ==
    ASSUME NoWrapAround, TypeOK, Agreement, ServerTurn
    PROVE  Agreement'
<1>1. UNCHANGED <<client, chunks, base, currseq, sent_packets, toRelay, toClient>>
  BY DEF ServerTurn, clientVars
<1>2. WindowHoldsSent'
  BY <1>1 DEF Agreement, WindowHoldsSent, Slot
<1>3. /\ rcv_base \in Nat /\ currseq \in Nat /\ WINDOW_SIZE \in Nat
      /\ rcv_base <= currseq
  BY Numbers DEF Agreement, ServerWrote
<1>4. \A s \in Nat : ServerHas(s)' <=>
         ServerHas(s) \/ \E r \in Relay : NewFrom(r) /\ s = Num(r)
  BY TurnHas
<1>5. TrafficGenuine'
  <2>1. ASSUME NEW r \in Relay
        PROVE  /\ Elements(toRelay'[r]) \subseteq {PacketOf(s) : s \in SentThrough(r)'}
               /\ Elements(toServer'[r]) \subseteq {PacketOf(s) : s \in SentThrough(r)'}
               /\ \A s \in Elements(backToRelay'[r]) \cup Elements(toClient'[r]) :
                     s \in SentThrough(r)' /\ ServerHas(s)'
    <3>1. SentThrough(r)' = SentThrough(r)
      BY <1>1 DEF SentThrough
    <3>2. /\ Elements(toRelay[r]) \subseteq {PacketOf(s) : s \in SentThrough(r)}
          /\ Elements(toServer[r]) \subseteq {PacketOf(s) : s \in SentThrough(r)}
          /\ \A s \in Elements(backToRelay[r]) \cup Elements(toClient[r]) :
                s \in SentThrough(r) /\ ServerHas(s)
      BY DEF Agreement, TrafficGenuine
    <3>3. Elements(toServer'[r]) \subseteq Elements(toServer[r])
      BY TurnElements
    <3>4. ASSUME NEW s \in Elements(backToRelay'[r]) \cup Elements(toClient'[r])
          PROVE  s \in SentThrough(r)' /\ ServerHas(s)'
      <4>1. CASE s \in Elements(backToRelay[r]) \cup Elements(toClient[r])
        <5>1. s \in SentThrough(r) /\ ServerHas(s) /\ s \in Nat
          BY <3>2, <4>1 DEF SentThrough
        <5> QED
          BY <1>4, <3>1, <5>1
      <4>2. CASE Readable(toServer[r]) /\ s = Num(r) /\ Acknowledged(s)
        <5>1. s \in SentThrough(r)
          BY <4>2, HeadGenuine DEF Agreement
        <5>2. ServerHas(s)'
          BY <4>2, AcknowledgedHas
        <5> QED
          BY <3>1, <5>1, <5>2
      <4> QED
        BY <1>1, <4>1, <4>2, TurnElements
    <3> QED
      BY <1>1, <3>1, <3>2, <3>3, <3>4
  <2> QED
    BY <2>1 DEF TrafficGenuine, Elements
<1>6. ServerWrote'
  <2> DEFINE n == SlideLength(rcv_base, Received)
  <2>1. /\ n \in 0..WINDOW_SIZE
        /\ rcv_base' = rcv_base + n
        /\ \A s \in rcv_base .. rcv_base + n - 1 : Received[Slot(s)] = 1
        /\ \A s \in rcv_base + n .. rcv_base + WINDOW_SIZE - 1 :
              ackd'[Slot(s)] = Received[Slot(s)]
        /\ \A s \in rcv_base + WINDOW_SIZE .. rcv_base + n + WINDOW_SIZE - 1 :
              ackd'[Slot(s)] = 0
    BY ServerSlide
  <2> HIDE DEF n
  <2>2. ASSUME NEW s \in rcv_base .. rcv_base + WINDOW_SIZE - 1, Received[Slot(s)] = 1
        PROVE  s < currseq
    <3>1. CASE ackd[Slot(s)] = 1
      BY <3>1 DEF Agreement, ServerWrote
    <3>2. CASE \E r \in Relay : NewFrom(r) /\ s = Num(r)
      BY <3>2, HeadGenuine DEF NewFrom, Agreement
    <3> QED
      BY <2>2, <3>1, <3>2, ReceivedMarks DEF Agreement
  <2>3. (rcv_base <= currseq)'
    <3>1. CASE n = 0
      BY <1>1, <1>3, <2>1, <3>1
    <3>2. CASE n # 0
      <4>1. /\ rcv_base + n - 1 \in rcv_base .. rcv_base + n - 1
            /\ rcv_base + n - 1 \in rcv_base .. rcv_base + WINDOW_SIZE - 1
        BY <1>3, <2>1, <3>2
      <4>2. rcv_base + n - 1 < currseq
        BY <2>1, <2>2, <4>1
      <4> QED
        BY <1>1, <1>3, <2>1, <4>2
    <3> QED
      BY <3>1, <3>2
  <2>4. (\A s \in rcv_base .. rcv_base + WINDOW_SIZE - 1 :
            ackd[Slot(s)] = 1 => s < currseq)'
    <3>1. ASSUME NEW s \in rcv_base + n .. rcv_base + n + WINDOW_SIZE - 1,
                 ackd'[Slot(s)] = 1
          PROVE  s < currseq
      <4>1. CASE s \in rcv_base + n .. rcv_base + WINDOW_SIZE - 1
        <5>1. s \in rcv_base .. rcv_base + WINDOW_SIZE - 1
          BY <1>3, <2>1, <4>1
        <5> QED
          BY <2>1, <2>2, <3>1, <4>1, <5>1
      <4>2. CASE s \in rcv_base + WINDOW_SIZE .. rcv_base + n + WINDOW_SIZE - 1
        BY <2>1, <3>1, <4>2
      <4> QED
        BY <1>3, <2>1, <4>1, <4>2
    <3> QED
      BY <1>1, <2>1, <3>1 DEF Slot
  <2>5. /\ Fits(written', rcv_base)
        /\ \A p : p \in Elements(written') <=>
              \/ p \in Elements(written)
              \/ \E r \in Relay : NewFrom(r) /\ p = Num(r) + 1
    BY TurnWrites
  <2>6. ASSUME NEW s \in Nat
        PROVE  ServerHas(s)' <=> s + 1 \in Elements(written')
    <3>1. ServerHas(s) <=> s + 1 \in Elements(written)
      BY DEF Agreement, ServerWrote
    <3>2. ASSUME NEW r \in Relay, NewFrom(r)
          PROVE  s = Num(r) <=> s + 1 = Num(r) + 1
      <4>1. Num(r) \in Nat
        BY <3>2, HeadGenuine DEF NewFrom, Agreement
      <4> QED
        BY <4>1
    <3> QED
      BY <1>4, <2>5, <3>1, <3>2
  <2>7. WrittenOnce' /\ OrderWithinWindow'
    BY <2>5 DEF Fits, Distinct, Ordered, WrittenOnce, OrderWithinWindow
  <2> QED
    BY <2>3, <2>4, <2>6, <2>7 DEF ServerWrote, Elements
<1> QED
  BY <1>2, <1>5, <1>6 DEF Agreement

(* Every step keeps the agreement.                                         *)
LEMMA StepAgreement ==
    NoWrapAround /\ TypeOK /\ Agreement /\ [Next]_vars => Agreement'
<1> SUFFICES ASSUME NoWrapAround, TypeOK, Agreement, [Next]_vars
             PROVE  Agreement'
  OBVIOUS
<1>1. CASE UNCHANGED vars
  <2>1. UNCHANGED <<client, chunks, base, currseq, sent_packets, serverVars,
                    toRelay, toServer, backToRelay, toClient>>
    BY <1>1 DEF vars, clientVars
  <2>2. WindowHoldsSent'
    BY <2>1 DEF Agreement, WindowHoldsSent, Slot
  <2>3. currseq' \in Nat /\ currseq <= currseq'
    BY <2>1, Numbers
  <2>4. TrafficGenuine' /\ ServerWrote'
    BY <2>1, <2>3, TrafficKeptAll, ServerWroteKept DEF Agreement
  <2> QED
    BY <2>2, <2>4 DEF Agreement
<1>2. CASE Client
  BY <1>2, SendNextAgreement, TimeoutAgreement, ReceiveAcksAgreement DEF Client
<1>3. CASE \E r \in Relay : DropData(r) \/ Forward(r)
  BY <1>3, DropDataAgreement, ForwardAgreement
<1>4. CASE ServerTurn
  BY <1>4, ServerTurnAgreement
<1> QED
  BY <1>1, <1>2, <1>3, <1>4 DEF Next

(* The client's window, what is under way and what the server has written  *)
(* agree, however many packets are lost, and however early the timeouts.   *)
LEMMA AlwaysAgreement ==
    ASSUME NoWrapAround PROVE Spec => [](TypeOK /\ Agreement)
<1>1. Init => TypeOK /\ Agreement
  BY InitTypes, InitAgreement
<1>2. TypeOK /\ Agreement /\ [Next]_vars => (TypeOK /\ Agreement)'
  BY StepTypes, StepAgreement
<1> QED
  BY <1>1, <1>2, PTL DEF Spec

(* server.c:107-124,147-164 writes every piece of the file at most once:   *)
(* packets sent again, and acknowledged again, are not written again.      *)
THEOREM AlwaysWrittenOnce ==
    ASSUME NoWrapAround PROVE Spec => []WrittenOnce
<1>1. Agreement => WrittenOnce
  BY DEF Agreement, ServerWrote
<1> QED
  BY <1>1, AlwaysAgreement, PTL

(* The pieces are written less than a window away from their places in the *)
(* file, as they arrive (server.c:117-122).                                *)
THEOREM AlwaysOrderWithinWindow ==
    ASSUME NoWrapAround PROVE Spec => []OrderWithinWindow
<1>1. Agreement => OrderWithinWindow
  BY DEF Agreement, ServerWrote
<1> QED
  BY <1>1, AlwaysAgreement, PTL

(* Every acknowledgement under way, however old, is for a packet that the  *)
(* server has written (server.c:107-117).                                  *)
THEOREM AlwaysAcksTruthful ==
    ASSUME NoWrapAround PROVE Spec => []AcksTruthful
<1>1. Agreement => AcksTruthful
  BY DEF Agreement, TrafficGenuine, AcksTruthful, Elements
<1> QED
  BY <1>1, AlwaysAgreement, PTL

-----------------------------------------------------------------------------
(* As long as no timeout came too early: the conjuncts of AgreementOnTime, *)
(* one action after the other.                                             *)

(* The first datagram is taken, if there is one.                           *)
LEMMA TakenOnce ==
    ASSUME NEW S, NEW q \in Seq(S), Len(q) <= Cap, Distinct(q), NEW x,
           x = IF Readable(q) THEN Tail(q) ELSE q
    PROVE  /\ Distinct(x) /\ Elements(x) \subseteq Elements(q)
           /\ Readable(q) => Head(q) \in Elements(q) /\ Head(q) \notin Elements(x)
           /\ Elements(q) \subseteq Elements(x) \cup (IF Readable(q) THEN {Head(q)} ELSE {})
<1>1. CASE Readable(q)
  BY <1>1, TailElements
<1>2. CASE ~Readable(q)
  BY <1>2
<1> QED
  BY <1>1, <1>2

(* A relay does not double what it passes on.                              *)
LEMMA ForwardedOnce ==
    ASSUME NEW S, NEW from \in Buffers(S), NEW to \in Buffers(S), NEW r \in Relay,
           NEW x \in Relay, NEW newFrom, NEW newTo,
           PassedOn(from, to, newFrom, newTo, r),
           Distinct(from[x]), Distinct(to[x]),
           \A e \in Elements(from[x]) : e \notin Elements(to[x])
    PROVE  /\ Distinct(newFrom[x]) /\ Distinct(newTo[x])
           /\ \A e \in Elements(newFrom[x]) : e \notin Elements(newTo[x])
<1>1. /\ from[r] \in Seq(S) /\ Len(from[r]) <= Cap
      /\ to[r] \in Seq(S) /\ Len(to[r]) <= Cap
      /\ from \in [Relay -> Seq(S)] /\ to \in [Relay -> Seq(S)]
  BY DEF Buffers
<1>2. CASE newFrom = from /\ newTo = to
  BY <1>2
<1>3. CASE /\ Readable(from[r])
           /\ newFrom = [from EXCEPT ![r] = Tail(from[r])]
           /\ newTo = [to EXCEPT ![r] = SendTo(to[r], Head(from[r]))]
  <2>1. CASE x = r
    <3>1. newFrom[x] = Tail(from[r]) /\ newTo[x] = SendTo(to[r], Head(from[r]))
      BY <1>1, <1>3, <2>1
    <3>2. /\ Head(from[r]) \in S /\ Head(from[r]) \in Elements(from[r])
          /\ Elements(Tail(from[r])) \subseteq Elements(from[r])
          /\ Distinct(Tail(from[r])) /\ Head(from[r]) \notin Elements(Tail(from[r]))
      BY <1>1, <1>3, <2>1, TailElements
    <3>3. Head(from[r]) \notin Elements(to[r])
      BY <2>1, <3>2
    <3>4. /\ Elements(SendTo(to[r], Head(from[r]))) \subseteq
                Elements(to[r]) \cup {Head(from[r])}
          /\ Distinct(SendTo(to[r], Head(from[r])))
      BY <1>1, <2>1, <3>2, <3>3, SendToElements
    <3> QED
      BY <2>1, <3>1, <3>2, <3>4
  <2>2. CASE x # r
    <3>1. newFrom[x] = from[x] /\ newTo[x] = to[x]
      BY <1>1, <1>3, <2>2
    <3> QED
      BY <3>1
  <2> QED
    BY <2>1, <2>2
<1> QED
  BY <1>2, <1>3 DEF PassedOn

(* The packets under way and their numbers. *)
LEMMA UnderWay ==
    ASSUME TypeOK, TrafficGenuine, NEW r \in Relay
    PROVE  /\ \A p \in Elements(toRelay[r]) \cup Elements(toServer[r]) :
                 /\ p.seq_no \in SentThrough(r) /\ p = PacketOf(p.seq_no)
                 /\ p.seq_no \in Nat /\ p.seq_no < currseq /\ RelayOf(p.seq_no) = r
           /\ \A s \in Elements(backToRelay[r]) \cup Elements(toClient[r]) :
                 /\ s \in SentThrough(r) /\ ServerHas(s)
                 /\ s \in Nat /\ s < currseq /\ RelayOf(s) = r
<1>1. \A s \in SentThrough(r) : s \in Nat /\ s < currseq /\ RelayOf(s) = r
  BY Numbers DEF SentThrough
<1>2. ASSUME NEW p \in Elements(toRelay[r]) \cup Elements(toServer[r])
      PROVE  p.seq_no \in SentThrough(r) /\ p = PacketOf(p.seq_no)
  <2>1. PICK s \in SentThrough(r) : p = PacketOf(s)
    BY DEF TrafficGenuine
  <2>2. p.seq_no = s
    BY <2>1 DEF PacketOf
  <2> QED
    BY <2>1, <2>2
<1>3. \A s \in Elements(backToRelay[r]) \cup Elements(toClient[r]) :
         s \in SentThrough(r) /\ ServerHas(s)
  BY DEF TrafficGenuine
<1> QED
  BY <1>1, <1>2, <1>3

-----------------------------------------------------------------------------
(* InOnePlace of the next state, from the buffers of the next state.       *)
LEMMA OnePlacePrimed ==
    (\A r \in Relay : OnePlace(toRelay'[r], toServer'[r], backToRelay'[r], toClient'[r]))
        => InOnePlace'
  BY DEF InOnePlace, OnePlace, Distinct, Elements

(* The agreement on time is inductive, action by action.                   *)
LEMMA InitOnTime == Init => InOnePlace /\ OnlyPending /\ MarksTruthful
<1> SUFFICES ASSUME Init PROVE InOnePlace /\ OnlyPending /\ MarksTruthful
  OBVIOUS
<1>1. /\ client = "running" /\ base = 0 /\ currseq = 0 /\ slid = 0
      /\ toRelay = NoTraffic /\ toServer = NoTraffic
      /\ backToRelay = NoTraffic /\ toClient = NoTraffic
      /\ acks = [s \in Slots |-> 0]
  BY DEF Init
<1>2. Elements(<<>>) = {} /\ Distinct(<<>>)
  BY DEF Elements, Distinct
<1>3. InOnePlace /\ OnlyPending
  BY <1>1, <1>2 DEF InOnePlace, OnePlace, OnlyPending, NoTraffic
<1>4. \A s \in Nat : acks[Slot(s)] # 1
  BY <1>1, SlotType
<1>5. base .. base + WINDOW_SIZE - 1 \subseteq Nat /\ 0 .. base - 1 = {}
  BY <1>1, WindowAssumption
<1> QED
  BY <1>1, <1>3, <1>4, <1>5 DEF MarksTruthful

(* A new number is not under way yet.                                      *)
LEMMA SendNextOnTime ==
    ASSUME NoWrapAround, TypeOK, Agreement, InOnePlace, OnlyPending, MarksTruthful,
           SendNext
    PROVE  (InOnePlace /\ OnlyPending /\ MarksTruthful)'
<1>1. /\ base \in Nat /\ currseq \in Nat /\ chunks \in Nat /\ currseq = chunks
      /\ chunks < NumPackets /\ NumPackets \in Nat /\ MAX_SEQ_NO \in Nat
      /\ WINDOW_SIZE \in Nat \ {0} /\ NumPackets + WINDOW_SIZE <= MAX_SEQ_NO
      /\ base <= currseq /\ currseq < base + WINDOW_SIZE
  <2>1. chunks # NumPackets /\ client = "running" /\ currseq < base + WINDOW_SIZE
    BY DEF SendNext, feof, WindowNotFull
  <2> QED
    BY <2>1, Numbers DEF Agreement, WindowHoldsSent, NoWrapAround
<1>2. /\ currseq' = currseq + 1
      /\ acks' = [acks EXCEPT ![Slot(currseq)] = 0]
      /\ acks \in [Slots -> Flag]
      /\ UNCHANGED <<client, base, slid, serverVars, toServer, backToRelay, toClient>>
      /\ client = "running"
  <2>1. currseq' = currseq + 1
    BY <1>1 DEF SendNext, Ahead
  <2> QED
    BY <2>1 DEF SendNext, TypeOK
<1>3. NextPacket = PacketOf(currseq) /\ NextPacket.seq_no = currseq
  BY <1>1 DEF NextPacket, PacketOf, FinalFlag
<1>4. NextPacket \in Packet
  <2>1. currseq \in SeqNo /\ chunks + 1 \in 1..NumPackets
    BY <1>1 DEF SeqNo
  <2> QED
    BY <2>1 DEF NextPacket, Packet, FinalFlag, Flag
<1>5. ASSUME NEW s \in Nat, base <= s, s < base + WINDOW_SIZE
      PROVE  acks'[Slot(s)] = IF s = currseq THEN 0 ELSE acks[Slot(s)]
  <2>1. Slot(s) \in Slots /\ Slot(currseq) \in Slots
    BY <1>1, SlotType
  <2>2. s # currseq => Slot(s) # Slot(currseq)
    <3>1. s \in base .. base + WINDOW_SIZE - 1 /\ currseq \in base .. base + WINDOW_SIZE - 1
      BY <1>1, <1>5
    <3> QED
      BY <1>1, <3>1, SlotInjective
  <2> QED
    BY <1>2, <2>1, <2>2
<1>6. ASSUME NEW s \in Nat, Pending(s)
      PROVE  Pending(s)'
  <2>1. base <= s /\ s < currseq /\ s < base + WINDOW_SIZE /\ s # currseq
        /\ acks[Slot(s)] = 0
    BY <1>1, <1>6 DEF Pending
  <2>2. acks'[Slot(s)] = 0
    BY <1>5, <2>1
  <2> QED
    BY <1>1, <1>2, <2>1, <2>2 DEF Pending, Slot
<1>7. ASSUME NEW s, s = currseq
      PROVE  Pending(s)'
  <2>1. acks'[Slot(s)] = 0
    BY <1>1, <1>5, <1>7
  <2> QED
    BY <1>1, <1>2, <1>7, <2>1 DEF Pending, Slot
<1>8. ASSUME NEW r \in Relay
      PROVE  /\ Elements(toRelay'[r]) \subseteq Elements(toRelay[r]) \cup {NextPacket}
             /\ Distinct(toRelay'[r])
             /\ NextPacket \notin Elements(toServer[r])
             /\ currseq \notin Elements(backToRelay[r]) \cup Elements(toClient[r])
  <2>1. toRelay' = [toRelay EXCEPT ![RelayOf(currseq)] =
                       SendTo(toRelay[RelayOf(currseq)], NextPacket)]
        /\ toRelay \in [Relay -> Seq(Packet)]
    BY DEF SendNext, TypeOK
  <2>2. /\ NextPacket \notin Elements(toRelay[r]) \cup Elements(toServer[r])
        /\ currseq \notin Elements(backToRelay[r]) \cup Elements(toClient[r])
    <3>1. ~(currseq < currseq)
      BY <1>1
    <3> QED
      BY <1>3, <3>1, UnderWay DEF Agreement
  <2>3. Distinct(toRelay[r])
    BY DEF InOnePlace, OnePlace
  <2>4. CASE r = RelayOf(currseq)
    <3>1. toRelay'[r] = SendTo(toRelay[r], NextPacket)
      BY <2>1, <2>4
    <3> QED
      BY <1>4, <2>2, <2>3, <3>1, BufferTypes, SendToElements
  <2>5. CASE r # RelayOf(currseq)
    <3>1. toRelay'[r] = toRelay[r]
      BY <2>1, <2>5
    <3> QED
      BY <2>2, <2>3, <3>1
  <2> QED
    BY <2>4, <2>5
<1>9. InOnePlace'
  <2>1. ASSUME NEW r \in Relay
        PROVE  OnePlace(toRelay'[r], toServer[r], backToRelay[r], toClient[r])
    <3>1. OnePlace(toRelay[r], toServer[r], backToRelay[r], toClient[r])
      BY DEF InOnePlace
    <3> QED
      BY <1>3, <1>8, <3>1 DEF OnePlace
  <2>2. \A r \in Relay : OnePlace(toRelay'[r], toServer'[r], backToRelay'[r], toClient'[r])
    BY <1>2, <2>1
  <2> QED
    BY <2>2, OnePlacePrimed
<1>10. OnlyPending'
  <2>1. ASSUME NEW r \in Relay, NEW p \in Elements(toRelay'[r]) \cup Elements(toServer'[r])
        PROVE  Pending(p.seq_no)'
    <3>1. CASE p \in Elements(toRelay[r]) \cup Elements(toServer[r])
      <4>1. p.seq_no \in Nat /\ Pending(p.seq_no)
        BY <3>1, UnderWay DEF OnlyPending, Agreement
      <4> QED
        BY <1>6, <4>1
    <3>2. CASE p = NextPacket
      <4>1. p.seq_no = currseq
        BY <1>3, <3>2
      <4> QED
        BY <1>7, <4>1
    <3> QED
      BY <1>2, <1>8, <3>1, <3>2
  <2>2. ASSUME NEW r \in Relay,
               NEW s \in Elements(backToRelay'[r]) \cup Elements(toClient'[r])
        PROVE  Pending(s)'
    <3>1. s \in Elements(backToRelay[r]) \cup Elements(toClient[r])
      BY <1>2
    <3>2. s \in Nat /\ Pending(s)
      BY <3>1, UnderWay DEF OnlyPending, Agreement
    <3> QED
      BY <1>6, <3>2
  <2> QED
    BY <2>1, <2>2 DEF OnlyPending, Elements, Pending, Slot
<1>11. MarksTruthful'
  <2>1. /\ slid = base /\ base <= currseq
        /\ \A s \in 0 .. base - 1 : ServerHas(s)
        /\ \A s \in base .. base + WINDOW_SIZE - 1 :
              acks[Slot(s)] = 1 => s < currseq /\ ServerHas(s)
    BY DEF MarksTruthful
  <2>2. \A s : ServerHas(s)' <=> ServerHas(s)
    BY <1>2, ServerKeeps
  <2>3. ASSUME NEW s \in base .. base + WINDOW_SIZE - 1, acks'[Slot(s)] = 1
        PROVE  s < currseq' /\ ServerHas(s)
    <3>1. s \in Nat /\ base <= s /\ s < base + WINDOW_SIZE
      BY <1>1
    <3>2. acks[Slot(s)] = 1
      BY <1>5, <2>3, <3>1
    <3> QED
      BY <1>1, <1>2, <2>1, <3>1, <3>2
  <2>4. base <= currseq'
    BY <1>1, <1>2
  <2> QED
    BY <1>2, <2>1, <2>2, <2>3, <2>4 DEF MarksTruthful, Slot
<1> QED
  BY <1>9, <1>10, <1>11

(* A timeout that comes when nothing is under way any more sends again     *)
(* packets the client waits for, each once.                                *)
LEMMA TimeoutOnTime ==
    ASSUME NoWrapAround, TypeOK, Agreement, MarksTruthful, Timeout,
           early = 0, early' = 0
    PROVE  (InOnePlace /\ OnlyPending /\ MarksTruthful)'
<1>1. /\ UNCHANGED <<chunks, base, currseq, acks, slid, serverVars, toServer,
                     backToRelay, toClient>>
      /\ client = "running" /\ client' = ClientAfter(base)
  BY DEF Timeout, Selecting
<1>2. /\ base \in Nat /\ currseq \in Nat
  BY Numbers
<1>3. NothingInTransit /\ Ready(toClient) = {}
  BY DEF Timeout
<1>4. ASSUME NEW r \in Relay
      PROVE  toRelay[r] = <<>> /\ toServer[r] = <<>> /\ backToRelay[r] = <<>>
             /\ toClient[r] = <<>>
  BY <1>3 DEF NothingInTransit, Ready, Readable
<1>5. ASSUME NEW r \in Relay
      PROVE  /\ Distinct(toRelay'[r])
             /\ \A p \in Elements(toRelay'[r]) : Pending(p.seq_no)
  <2>1. toRelay'[r] = SendAll(<<>>, Resent(r))
    BY <1>4 DEF Timeout
  <2>2. /\ Resent(r) \in Seq(Packet) /\ Distinct(Resent(r))
        /\ Elements(Resent(r)) \subseteq
              {PacketOf(s) : s \in {t \in base .. currseq - 1 : Unacked(r, t)}}
    BY <1>1, ResentGenuine DEF Agreement
  <2>3. Distinct(toRelay'[r])
    BY <2>1, <2>2, SendAllToEmpty
  <2>4. <<>> \in Seq(Packet) /\ Len(<<>>) <= Cap /\ Elements(<<>>) = {}
    BY EmptySeq, CapAssumption DEF Elements
  <2>5. Elements(toRelay'[r]) \subseteq Elements(Resent(r))
    BY <2>1, <2>2, <2>4, SendAllElements
  <2>6. ASSUME NEW p \in Elements(toRelay'[r])
        PROVE  Pending(p.seq_no)
    <3>1. PICK s \in {t \in base .. currseq - 1 : Unacked(r, t)} : p = PacketOf(s)
      BY <2>2, <2>5
    <3>2. p.seq_no = s
      BY <3>1 DEF PacketOf
    <3> QED
      BY <1>2, <3>2 DEF Pending, Unacked
  <2> QED
    BY <2>3, <2>6
<1>6. Elements(<<>>) = {} /\ Distinct(<<>>)
  BY DEF Elements, Distinct
<1>7. InOnePlace'
  <2>1. \A r \in Relay : OnePlace(toRelay'[r], toServer'[r], backToRelay'[r], toClient'[r])
    BY <1>1, <1>4, <1>5, <1>6 DEF OnePlace
  <2> QED
    BY <2>1, OnePlacePrimed
<1>8. OnlyPending'
  <2>1. ASSUME NEW r \in Relay
        PROVE  /\ Elements(toServer'[r]) = {} /\ Elements(backToRelay'[r]) = {}
               /\ Elements(toClient'[r]) = {}
    BY <1>1, <1>4, <1>6
  <2>2. \A s : Pending(s)' <=> Pending(s)
    BY <1>1 DEF Pending, Slot
  <2>3. ASSUME NEW r \in Relay, NEW p \in Elements(toRelay'[r]) \cup Elements(toServer'[r])
        PROVE  Pending(p.seq_no)'
    BY <1>5, <2>1, <2>2
  <2> QED
    BY <2>1, <2>3 DEF OnlyPending, Elements, Pending, Slot
<1>9. MarksTruthful'
  <2>1. \A s : ServerHas(s)' <=> ServerHas(s)
    BY <1>1, ServerKeeps
  <2>2. client' = "done" => feof /\ ~(base < currseq)
    BY <1>1 DEF ClientAfter
  <2>3. base <= currseq
    BY DEF MarksTruthful
  <2>4. client' = "done" => feof' /\ base' = currseq'
    BY <1>1, <1>2, <2>2, <2>3 DEF feof
  <2> QED
    BY <1>1, <2>1, <2>4 DEF MarksTruthful, Slot
<1> QED
  BY <1>7, <1>8, <1>9

(* Nothing but what is under way changes.                                  *)
LEMMA PassingOnTime ==
    ASSUME TypeOK, OnlyPending, MarksTruthful, UNCHANGED <<clientVars, serverVars>>,
           \A r \in Relay :
              /\ Elements(toRelay'[r]) \subseteq Elements(toRelay[r])
              /\ Elements(toServer'[r]) \subseteq
                    Elements(toServer[r]) \cup Elements(toRelay[r])
              /\ Elements(backToRelay'[r]) \subseteq Elements(backToRelay[r])
              /\ Elements(toClient'[r]) \subseteq
                    Elements(toClient[r]) \cup Elements(backToRelay[r])
    PROVE  OnlyPending' /\ MarksTruthful'
<1>1. UNCHANGED <<client, chunks, base, currseq, acks, slid>> /\ UNCHANGED serverVars
  BY DEF clientVars
<1>2. \A s : ServerHas(s)' <=> ServerHas(s)
  BY <1>1, ServerKeeps
<1>3. \A s : Pending(s)' <=> Pending(s)
  BY <1>1 DEF Pending, Slot
<1>4. MarksTruthful'
  BY <1>1, <1>2 DEF MarksTruthful, Slot, feof
<1>5. ASSUME NEW r \in Relay
      PROVE  /\ \A p \in Elements(toRelay'[r]) \cup Elements(toServer'[r]) :
                   Pending(p.seq_no)
             /\ \A s \in Elements(backToRelay'[r]) \cup Elements(toClient'[r]) : Pending(s)
  <2>1. /\ \A p \in Elements(toRelay[r]) \cup Elements(toServer[r]) : Pending(p.seq_no)
        /\ \A s \in Elements(backToRelay[r]) \cup Elements(toClient[r]) : Pending(s)
    BY DEF OnlyPending
  <2> QED
    BY <2>1
<1>6. OnlyPending'
  BY <1>1, <1>5 DEF OnlyPending, Elements, Pending, Slot
<1> QED
  BY <1>4, <1>6

(* A packet that is lost is under way nowhere.                             *)
LEMMA DropDataOnTime ==
    ASSUME TypeOK, InOnePlace, OnlyPending, MarksTruthful, NEW r \in Relay, DropData(r)
    PROVE  (InOnePlace /\ OnlyPending /\ MarksTruthful)'
<1>1. /\ UNCHANGED <<clientVars, serverVars, toServer, backToRelay, toClient>>
      /\ Readable(toRelay[r])
      /\ toRelay' = [toRelay EXCEPT ![r] = Tail(toRelay[r])]
      /\ toRelay \in [Relay -> Seq(Packet)]
  BY DEF DropData, TypeOK
<1>2. ASSUME NEW x \in Relay
      PROVE  /\ Elements(toRelay'[x]) \subseteq Elements(toRelay[x])
             /\ Distinct(toRelay'[x])
  <2>1. Distinct(toRelay[x])
    BY DEF InOnePlace, OnePlace
  <2>2. CASE x = r
    <3>1. toRelay'[x] = Tail(toRelay[x])
      BY <1>1, <2>2
    <3> QED
      BY <1>1, <2>1, <2>2, <3>1, BufferTypes, TailElements
  <2>3. CASE x # r
    <3>1. toRelay'[x] = toRelay[x]
      BY <1>1, <2>3
    <3> QED
      BY <2>1, <3>1
  <2> QED
    BY <2>2, <2>3
<1>3. InOnePlace'
  <2>1. ASSUME NEW x \in Relay
        PROVE  OnePlace(toRelay'[x], toServer[x], backToRelay[x], toClient[x])
    <3>1. OnePlace(toRelay[x], toServer[x], backToRelay[x], toClient[x])
      BY DEF InOnePlace
    <3> QED
      BY <1>2, <3>1 DEF OnePlace
  <2>2. \A x \in Relay : OnePlace(toRelay'[x], toServer'[x], backToRelay'[x], toClient'[x])
    BY <1>1, <2>1
  <2> QED
    BY <2>2, OnePlacePrimed
<1> QED
  BY <1>1, <1>2, <1>3, PassingOnTime

(* A packet that is passed on leaves the buffer it was in.                 *)
LEMMA ForwardOnTime ==
    ASSUME TypeOK, InOnePlace, OnlyPending, MarksTruthful, NEW r \in Relay, Forward(r)
    PROVE  (InOnePlace /\ OnlyPending /\ MarksTruthful)'
<1>1. UNCHANGED <<clientVars, serverVars>>
  BY DEF Forward
<1>2. /\ PassedOn(toRelay, toServer, toRelay', toServer', r)
      /\ PassedOn(backToRelay, toClient, backToRelay', toClient', r)
  BY ForwardPassesOn
<1>3. /\ toRelay \in Buffers(Packet) /\ toServer \in Buffers(Packet)
      /\ backToRelay \in Buffers(SeqNo) /\ toClient \in Buffers(SeqNo)
  BY BuffersType
<1>4. ASSUME NEW x \in Relay
      PROVE  /\ Elements(toRelay'[x]) \subseteq Elements(toRelay[x])
             /\ Elements(toServer'[x]) \subseteq Elements(toServer[x]) \cup Elements(toRelay[x])
             /\ Elements(backToRelay'[x]) \subseteq Elements(backToRelay[x])
             /\ Elements(toClient'[x]) \subseteq
                   Elements(toClient[x]) \cup Elements(backToRelay[x])
  <2>1. /\ Elements(toRelay'[x]) \subseteq Elements(toRelay[x])
        /\ Elements(toServer'[x]) \subseteq Elements(toServer[x]) \cup Elements(toRelay[x])
    BY <1>2, <1>3, ForwardedElements
  <2>2. /\ Elements(backToRelay'[x]) \subseteq Elements(backToRelay[x])
        /\ Elements(toClient'[x]) \subseteq
              Elements(toClient[x]) \cup Elements(backToRelay[x])
    BY <1>2, <1>3, ForwardedElements
  <2> QED
    BY <2>1, <2>2
<1>5. ASSUME NEW x \in Relay
      PROVE  OnePlace(toRelay'[x], toServer'[x], backToRelay'[x], toClient'[x])
  <2>1. OnePlace(toRelay[x], toServer[x], backToRelay[x], toClient[x])
    BY DEF InOnePlace
  <2>2. /\ Distinct(toRelay[x]) /\ Distinct(toServer[x])
        /\ Distinct(backToRelay[x]) /\ Distinct(toClient[x])
        /\ \A p \in Elements(toRelay[x]) : p \notin Elements(toServer[x])
        /\ \A s \in Elements(backToRelay[x]) : s \notin Elements(toClient[x])
    BY <2>1 DEF OnePlace
  <2>3. /\ Distinct(toRelay'[x]) /\ Distinct(toServer'[x])
        /\ \A p \in Elements(toRelay'[x]) : p \notin Elements(toServer'[x])
    BY <1>2, <1>3, <2>2, ForwardedOnce
  <2>4. /\ Distinct(backToRelay'[x]) /\ Distinct(toClient'[x])
        /\ \A s \in Elements(backToRelay'[x]) : s \notin Elements(toClient'[x])
    BY <1>2, <1>3, <2>2, ForwardedOnce
  <2>5. \A p \in Elements(toRelay'[x]) \cup Elements(toServer'[x]) :
           p.seq_no \notin Elements(backToRelay'[x]) \cup Elements(toClient'[x])
    BY <1>4, <2>1 DEF OnePlace
  <2> QED
    BY <2>3, <2>4, <2>5 DEF OnePlace
<1>6. InOnePlace'
  BY <1>5, OnePlacePrimed
<1> QED
  BY <1>1, <1>4, <1>6, PassingOnTime

(* The server answers a packet it takes away, once.                        *)
LEMMA ServerTurnOnTime ==
    ASSUME NoWrapAround, TypeOK, Agreement, InOnePlace, OnlyPending, MarksTruthful,
           ServerTurn
    PROVE  (InOnePlace /\ OnlyPending /\ MarksTruthful)'
<1>1. /\ UNCHANGED <<client, chunks, base, currseq, acks, slid, toRelay, toClient>>
  BY DEF ServerTurn, clientVars
<1>2. base \in Nat /\ WINDOW_SIZE \in Nat
  BY Numbers
<1>3. ASSUME NEW s \in Nat, ServerHas(s)
      PROVE  ServerHas(s)'
  BY <1>3, TurnHas
<1>4. \A s : Pending(s)' <=> Pending(s)
  BY <1>1 DEF Pending, Slot
<1>5. ASSUME NEW r \in Relay
      PROVE  /\ Distinct(toServer'[r]) /\ Elements(toServer'[r]) \subseteq Elements(toServer[r])
             /\ Readable(toServer[r]) => /\ Head(toServer[r]) \in Elements(toServer[r])
                                         /\ Head(toServer[r]) \notin Elements(toServer'[r])
  <2>1. toServer'[r] = IF Readable(toServer[r]) THEN Tail(toServer[r]) ELSE toServer[r]
    BY DEF ServerTurn, TakenFrom
  <2>2. Distinct(toServer[r])
    BY DEF InOnePlace, OnePlace
  <2>3. toServer[r] \in Seq(Packet) /\ Len(toServer[r]) <= Cap
    BY BufferTypes
  <2> QED
    BY <2>1, <2>2, <2>3, TakenOnce
<1>6. ASSUME NEW r \in Relay
      PROVE  /\ Distinct(backToRelay'[r])
             /\ \A s \in Elements(backToRelay'[r]) :
                   \/ s \in Elements(backToRelay[r])
                   \/ Readable(toServer[r]) /\ s = Num(r)
  <2>1. \A s \in Elements(backToRelay'[r]) :
           \/ s \in Elements(backToRelay[r])
           \/ Readable(toServer[r]) /\ s = Num(r)
    BY TurnElements
  <2>2. Distinct(backToRelay[r])
    BY DEF InOnePlace, OnePlace
  <2>3. CASE Readable(toServer[r]) /\ Acknowledged(Num(r))
    <3>1. backToRelay'[r] = SendTo(backToRelay[r], Num(r))
      BY <2>3 DEF ServerTurn, Num
    <3>2. Num(r) \in SeqNo
      BY <2>3, HeadGenuine DEF Agreement
    <3>3. Num(r) \notin Elements(backToRelay[r])
      BY <1>5, <2>3 DEF InOnePlace, OnePlace, Num
    <3>4. backToRelay[r] \in Seq(SeqNo) /\ Len(backToRelay[r]) <= Cap
      BY BufferTypes
    <3>5. Distinct(SendTo(backToRelay[r], Num(r)))
      BY <2>2, <3>2, <3>3, <3>4, SendToElements
    <3> QED
      BY <2>1, <3>1, <3>5
  <2>4. CASE ~(Readable(toServer[r]) /\ Acknowledged(Num(r)))
    <3>1. backToRelay'[r] = backToRelay[r]
      BY <2>4 DEF ServerTurn, Num
    <3> QED
      BY <2>1, <2>2, <3>1
  <2> QED
    BY <2>3, <2>4
<1>7. InOnePlace'
  <2>1. ASSUME NEW r \in Relay
        PROVE  OnePlace(toRelay[r], toServer'[r], backToRelay'[r], toClient[r])
    <3>1. OnePlace(toRelay[r], toServer[r], backToRelay[r], toClient[r])
      BY DEF InOnePlace
    <3>2. ASSUME NEW p \in Elements(toRelay[r]) \cup Elements(toServer'[r])
          PROVE  p.seq_no \notin Elements(backToRelay'[r]) \cup Elements(toClient[r])
      <4>1. /\ p \in Elements(toRelay[r]) \cup Elements(toServer[r])
            /\ p = PacketOf(p.seq_no)
        BY <1>5, UnderWay DEF Agreement
      <4>2. p.seq_no \notin Elements(backToRelay[r]) \cup Elements(toClient[r])
        BY <3>1, <4>1 DEF OnePlace
      <4>3. ASSUME Readable(toServer[r]), p.seq_no = Num(r)
            PROVE  FALSE
        <5>1. p = Head(toServer[r])
          BY <4>1, <4>3, HeadGenuine DEF Agreement
        <5> QED
          BY <1>5, <3>1, <4>3, <5>1 DEF OnePlace
      <4> QED
        BY <1>6, <4>2, <4>3
    <3>3. ASSUME NEW s \in Elements(backToRelay'[r])
          PROVE  s \notin Elements(toClient[r])
      <4>1. CASE s \in Elements(backToRelay[r])
        BY <3>1, <4>1 DEF OnePlace
      <4>2. CASE Readable(toServer[r]) /\ s = Num(r)
        BY <1>5, <3>1, <4>2 DEF OnePlace, Num
      <4> QED
        BY <1>6, <4>1, <4>2
    <3>4. /\ Distinct(toRelay[r]) /\ Distinct(toClient[r])
          /\ \A p \in Elements(toRelay[r]) : p \notin Elements(toServer'[r])
      BY <1>5, <3>1 DEF OnePlace
    <3> QED
      BY <1>5, <1>6, <3>2, <3>3, <3>4 DEF OnePlace
  <2>2. \A r \in Relay : OnePlace(toRelay'[r], toServer'[r], backToRelay'[r], toClient'[r])
    BY <1>1, <2>1
  <2> QED
    BY <2>2, OnePlacePrimed
<1>8. OnlyPending'
  <2>1. ASSUME NEW r \in Relay
        PROVE  /\ \A p \in Elements(toRelay'[r]) \cup Elements(toServer'[r]) :
                     Pending(p.seq_no)
               /\ \A s \in Elements(backToRelay'[r]) \cup Elements(toClient'[r]) : Pending(s)
    <3>1. /\ \A p \in Elements(toRelay[r]) \cup Elements(toServer[r]) : Pending(p.seq_no)
          /\ \A s \in Elements(backToRelay[r]) \cup Elements(toClient[r]) : Pending(s)
      BY DEF OnlyPending
    <3>2. Readable(toServer[r]) => Pending(Num(r))
      BY <1>5, <3>1 DEF Num
    <3> QED
      BY <1>1, <1>5, <1>6, <3>1, <3>2
  <2> QED
    BY <1>1, <2>1 DEF OnlyPending, Elements, Pending, Slot
<1>9. MarksTruthful'
  <2>1. /\ \A s \in 0 .. base - 1 : ServerHas(s)'
        /\ \A s \in base .. base + WINDOW_SIZE - 1 :
              acks[Slot(s)] = 1 => s < currseq /\ ServerHas(s)'
    BY <1>2, <1>3 DEF MarksTruthful
  <2> QED
    BY <1>1, <2>1 DEF MarksTruthful, Slot, feof
<1> QED
  BY <1>7, <1>8, <1>9

(* On time, an answer marks the slot of its own packet.                    *)
LEMMA MarkedOnTime ==
    ASSUME TypeOK, Agreement, OnlyPending,
           base <= currseq, currseq <= base + WINDOW_SIZE,
           NEW s \in base .. base + WINDOW_SIZE - 1
    PROVE  Marked[Slot(s)] = 1 <=>
              acks[Slot(s)] = 1 \/ \E r \in Ready(toClient) : s = Head(toClient[r])
<1>1. base \in Nat /\ currseq \in Nat /\ WINDOW_SIZE \in Nat /\ s \in Nat
      /\ Slot(s) \in Slots
  BY Numbers, SlotType
<1>2. ASSUME NEW r \in Ready(toClient)
      PROVE  Slot(Head(toClient[r])) = Slot(s) <=> s = Head(toClient[r])
  <2>1. r \in Relay /\ Readable(toClient[r])
    BY DEF Ready
  <2>2. Head(toClient[r]) \in Elements(toClient[r])
    BY <2>1, BufferTypes, TailElements
  <2>3. Pending(Head(toClient[r])) /\ Head(toClient[r]) \in Nat
    BY <2>1, <2>2, UnderWay DEF OnlyPending, Agreement
  <2>4. Head(toClient[r]) \in base .. base + WINDOW_SIZE - 1
    BY <1>1, <2>3 DEF Pending
  <2> QED
    BY <1>1, <2>4, SlotInjective
<1>3. Marked[Slot(s)] =
         IF \E r \in Ready(toClient) : Slot(Head(toClient[r])) = Slot(s)
         THEN 1 ELSE acks[Slot(s)]
  BY <1>1 DEF Marked
<1> QED
  BY <1>2, <1>3

(* An answer marks its own packet, so base passes what the server has.     *)
LEMMA ReceiveAcksOnTime ==
    ASSUME NoWrapAround, TypeOK, Agreement, InOnePlace, OnlyPending, MarksTruthful,
           ReceiveAcks
    PROVE  (InOnePlace /\ OnlyPending /\ MarksTruthful)'
<1> DEFINE n == SlideLength(base, Marked)
<1>1. UNCHANGED <<chunks, currseq, serverVars, toRelay, toServer, backToRelay>>
  BY DEF ReceiveAcks
<1>2. /\ n \in 0..WINDOW_SIZE
      /\ base' = base + n /\ slid' = slid + n
      /\ base <= currseq /\ currseq <= base + WINDOW_SIZE
      /\ \A s \in base .. base + n - 1 : Marked[Slot(s)] = 1
      /\ \A s \in base + n .. base + WINDOW_SIZE - 1 : acks'[Slot(s)] = Marked[Slot(s)]
      /\ \A s \in base + WINDOW_SIZE .. base + n + WINDOW_SIZE - 1 : acks'[Slot(s)] = 0
      /\ client' = ClientAfter(base')
  BY ClientSlide DEF Agreement
<1> HIDE DEF n
<1>3. base \in Nat /\ currseq \in Nat /\ WINDOW_SIZE \in Nat /\ slid = base
  BY Numbers DEF MarksTruthful
<1>4. ASSUME NEW s \in base .. base + WINDOW_SIZE - 1, Marked[Slot(s)] = 1
      PROVE  s < currseq /\ ServerHas(s)
  <2>1. CASE acks[Slot(s)] = 1
    BY <2>1 DEF MarksTruthful
  <2>2. CASE \E r \in Ready(toClient) : s = Head(toClient[r])
    <3>1. PICK r \in Relay : Readable(toClient[r]) /\ s = Head(toClient[r])
      BY <2>2 DEF Ready
    <3>2. s \in Elements(toClient[r])
      BY <3>1, BufferTypes, TailElements
    <3> QED
      BY <3>2, UnderWay DEF Agreement
  <2> QED
    BY <1>2, <1>4, <2>1, <2>2, MarkedOnTime
<1>5. \A s : ServerHas(s)' <=> ServerHas(s)
  BY <1>1, ServerKeeps
<1>6. ASSUME NEW r \in Relay
      PROVE  /\ Distinct(toClient'[r]) /\ Elements(toClient'[r]) \subseteq Elements(toClient[r])
             /\ Readable(toClient[r]) => /\ Head(toClient[r]) \in Elements(toClient[r])
                                         /\ Head(toClient[r]) \notin Elements(toClient'[r])
  <2>1. toClient'[r] = IF Readable(toClient[r]) THEN Tail(toClient[r]) ELSE toClient[r]
    BY DEF ReceiveAcks, TakenFrom
  <2>2. Distinct(toClient[r])
    BY DEF InOnePlace, OnePlace
  <2>3. toClient[r] \in Seq(SeqNo) /\ Len(toClient[r]) <= Cap
    BY BufferTypes
  <2> QED
    BY <2>1, <2>2, <2>3, TakenOnce
<1>7. ASSUME NEW s \in Nat, Pending(s),
             \A r \in Ready(toClient) : s # Head(toClient[r])
      PROVE  Pending(s)'
  <2>1. base <= s /\ s < currseq /\ acks[Slot(s)] = 0
    BY <1>7 DEF Pending
  <2>2. s \in base .. base + WINDOW_SIZE - 1
    BY <1>2, <1>3, <2>1
  <2>3. Marked[Slot(s)] # 1
    BY <1>2, <1>7, <2>1, <2>2, MarkedOnTime
  <2>4. s \in base + n .. base + WINDOW_SIZE - 1
    BY <1>2, <1>3, <2>2, <2>3
  <2>5. acks'[Slot(s)] # 1 /\ acks'[Slot(s)] \in {0, 1}
    <3>1. Slot(s) \in Slots /\ Marked \in [Slots -> Flag]
      BY SlotType, MarkedType
    <3> QED
      BY <1>2, <2>3, <2>4, <3>1 DEF Flag
  <2>6. base + n <= s
    BY <1>2, <1>3, <2>4
  <2> QED
    BY <1>1, <1>2, <2>1, <2>5, <2>6 DEF Pending, Slot
<1>8. ASSUME NEW r \in Relay, NEW s \in Nat, RelayOf(s) = r,
             Readable(toClient[r]) => s # Head(toClient[r])
      PROVE  \A x \in Ready(toClient) : s # Head(toClient[x])
  <2> SUFFICES ASSUME NEW x \in Relay, Readable(toClient[x]), s = Head(toClient[x])
               PROVE  FALSE
    BY DEF Ready
  <2>1. s \in Elements(toClient[x])
    BY <1>6
  <2>2. RelayOf(s) = x
    BY <2>1, UnderWay DEF Agreement
  <2> QED
    BY <1>8, <2>2
<1>9. InOnePlace'
  <2>1. ASSUME NEW r \in Relay
        PROVE  OnePlace(toRelay[r], toServer[r], backToRelay[r], toClient'[r])
    <3>1. OnePlace(toRelay[r], toServer[r], backToRelay[r], toClient[r])
      BY DEF InOnePlace
    <3> QED
      BY <1>6, <3>1 DEF OnePlace
  <2>2. \A r \in Relay : OnePlace(toRelay'[r], toServer'[r], backToRelay'[r], toClient'[r])
    BY <1>1, <2>1
  <2> QED
    BY <2>2, OnePlacePrimed
<1>10. OnlyPending'
  <2>1. ASSUME NEW r \in Relay, NEW s, s \in Nat, Pending(s), RelayOf(s) = r,
               Readable(toClient[r]) => s # Head(toClient[r])
        PROVE  Pending(s)'
    BY <1>7, <1>8, <2>1
  <2>2. ASSUME NEW r \in Relay, NEW p \in Elements(toRelay[r]) \cup Elements(toServer[r])
        PROVE  Pending(p.seq_no)'
    <3>1. Pending(p.seq_no) /\ p.seq_no \in Nat /\ RelayOf(p.seq_no) = r
      BY UnderWay DEF OnlyPending, Agreement
    <3>2. p.seq_no \notin Elements(toClient[r])
      BY DEF InOnePlace, OnePlace
    <3>3. Readable(toClient[r]) => p.seq_no # Head(toClient[r])
      BY <1>6, <3>2
    <3> QED
      BY <2>1, <3>1, <3>3
  <2>3. ASSUME NEW r \in Relay, NEW s \in Elements(backToRelay[r]) \cup Elements(toClient'[r])
        PROVE  Pending(s)'
    <3>1. s \in Elements(backToRelay[r]) \cup Elements(toClient[r])
      BY <1>6
    <3>2. Pending(s) /\ s \in Nat /\ RelayOf(s) = r
      BY <3>1, UnderWay DEF OnlyPending, Agreement
    <3>3. Readable(toClient[r]) => s # Head(toClient[r])
      BY <1>6 DEF InOnePlace, OnePlace
    <3> QED
      BY <2>1, <3>2, <3>3
  <2> QED
    BY <1>1, <2>2, <2>3 DEF OnlyPending, Elements, Pending, Slot
<1>11. MarksTruthful'
  <2>1. base' <= currseq'
    <3>1. CASE n = 0
      BY <1>1, <1>2, <1>3, <3>1
    <3>2. CASE n # 0
      <4>1. /\ base + n - 1 \in base .. base + n - 1
            /\ base + n - 1 \in base .. base + WINDOW_SIZE - 1
        BY <1>2, <1>3, <3>2
      <4>2. base + n - 1 < currseq
        BY <1>2, <1>4, <4>1
      <4> QED
        BY <1>1, <1>2, <1>3, <4>2
    <3> QED
      BY <3>1, <3>2
  <2>2. client' = "done" => feof' /\ base' = currseq'
    <3>1. client' = "done" => feof /\ ~(base' < currseq)
      BY <1>2 DEF ClientAfter
    <3>2. base' \in Nat
      BY <1>2, <1>3
    <3> QED
      BY <1>1, <1>3, <2>1, <3>1, <3>2 DEF feof
  <2>3. ASSUME NEW s \in 0 .. base + n - 1
        PROVE  ServerHas(s)
    <3>1. CASE s \in 0 .. base - 1
      BY <3>1 DEF MarksTruthful
    <3>2. CASE s \in base .. base + n - 1
      <4>1. s \in base .. base + WINDOW_SIZE - 1
        BY <1>2, <1>3, <3>2
      <4> QED
        BY <1>2, <1>4, <3>2, <4>1
    <3> QED
      BY <1>2, <1>3, <3>1, <3>2
  <2>4. ASSUME NEW s \in base + n .. base + n + WINDOW_SIZE - 1, acks'[Slot(s)] = 1
        PROVE  s < currseq /\ ServerHas(s)
    <3>1. CASE s \in base + n .. base + WINDOW_SIZE - 1
      <4>1. s \in base .. base + WINDOW_SIZE - 1
        BY <1>2, <1>3, <3>1
      <4> QED
        BY <1>2, <1>4, <2>4, <3>1, <4>1
    <3>2. CASE s \in base + WINDOW_SIZE .. base + n + WINDOW_SIZE - 1
      BY <1>2, <2>4, <3>2
    <3> QED
      BY <1>2, <1>3, <3>1, <3>2
  <2>5. slid' = base'
    BY <1>2, <1>3
  <2>6. (\A s \in 0 .. base - 1 : ServerHas(s))'
    <3>1. ASSUME NEW s \in 0 .. base' - 1
          PROVE  ServerHas(s)'
      <4>1. base' = base + n /\ base \in Nat /\ n \in Nat
        BY <1>2, <1>3
      <4>2. s \in 0 .. base + n - 1
        BY <4>1
      <4> QED
        BY <1>5, <2>3, <4>2
    <3> QED
      BY <3>1
  <2>7. (\A s \in base .. base + WINDOW_SIZE - 1 :
            acks[Slot(s)] = 1 => s < currseq /\ ServerHas(s))'
    <3>1. \A s \in base' .. base' + WINDOW_SIZE - 1 :
             acks'[Slot(s)] = 1 => s < currseq' /\ ServerHas(s)'
      BY <1>1, <1>2, <1>5, <2>4
    <3> QED
      BY <3>1 DEF Slot
  <2> QED
    BY <2>1, <2>2, <2>5, <2>6, <2>7 DEF MarksTruthful
<1> QED
  BY <1>9, <1>10, <1>11

(* A timeout that comes too early ends what is said of the time before.    *)
LEMMA StepOnTime ==
    NoWrapAround /\ TypeOK /\ Agreement /\ AgreementOnTime /\ [Next]_vars
        => AgreementOnTime'
<1> SUFFICES ASSUME NoWrapAround, TypeOK, Agreement, AgreementOnTime, [Next]_vars,
                    early' = 0
             PROVE  (InOnePlace /\ OnlyPending /\ MarksTruthful)'
  BY DEF AgreementOnTime
<1>1. early = 0
  <2>1. early \in Nat
    BY EarlyAssumption DEF TypeOK
  <2>2. early' = early \/ early' = early + 1
    BY DEF Next, Client, SendNext, Timeout, ReceiveAcks, DropData, Forward, ServerTurn,
           clientVars, vars
  <2> QED
    BY <2>1, <2>2
<1>2. InOnePlace /\ OnlyPending /\ MarksTruthful
  BY <1>1 DEF AgreementOnTime
<1>3. CASE UNCHANGED vars
  <2>1. UNCHANGED <<clientVars, serverVars, toRelay, toServer, backToRelay, toClient>>
    BY <1>3 DEF vars
  <2>2. OnlyPending' /\ MarksTruthful'
    BY <1>2, <2>1, PassingOnTime
  <2>3. InOnePlace'
    BY <1>2, <2>1, OnePlacePrimed DEF InOnePlace
  <2> QED
    BY <2>2, <2>3
<1>4. CASE SendNext
  BY <1>2, <1>4, SendNextOnTime
<1>5. CASE Timeout
  BY <1>1, <1>2, <1>5, TimeoutOnTime
<1>6. CASE ReceiveAcks
  BY <1>2, <1>6, ReceiveAcksOnTime
<1>7. CASE \E r \in Relay : DropData(r) \/ Forward(r)
  BY <1>2, <1>7, DropDataOnTime, ForwardOnTime
<1>8. CASE ServerTurn
  BY <1>2, <1>8, ServerTurnOnTime
<1> QED
  BY <1>3, <1>4, <1>5, <1>6, <1>7, <1>8 DEF Next, Client

(* The invariant of the theorem below.                                     *)
LEMMA AlwaysOnTime ==
    ASSUME NoWrapAround PROVE Spec => [](TypeOK /\ Agreement /\ AgreementOnTime)
<1>1. Init => TypeOK /\ Agreement /\ AgreementOnTime
  BY InitTypes, InitAgreement, InitOnTime DEF AgreementOnTime
<1>2. TypeOK /\ Agreement /\ AgreementOnTime /\ [Next]_vars
         => (TypeOK /\ Agreement /\ AgreementOnTime)'
  BY StepTypes, StepAgreement, StepOnTime
<1> QED
  BY <1>1, <1>2, PTL DEF Spec

(* As long as timeouts mean losses the client's window never passes a      *)
(* packet the server has not written, and a client that ends has sent the  *)
(* whole file (client.c:140,262-300): an acknowledgement is always marked  *)
(* in the slot of its own packet, although client.c never looks at the     *)
(* number that was in the slot.                                            *)
THEOREM AlwaysSlidesOverWritten ==
    ASSUME NoWrapAround PROVE Spec => []SlidesOverWritten
<1>1. ASSUME TypeOK, Agreement, AgreementOnTime
      PROVE  SlidesOverWritten
  <2> SUFFICES ASSUME early = 0
               PROVE  NothingSkipped /\ (client = "done" => Len(written) = NumPackets)
    BY DEF SlidesOverWritten
  <2>1. /\ slid = base /\ base \in Nat /\ base <= currseq
        /\ currseq = chunks /\ NumPackets \in Nat /\ chunks \in Nat
        /\ \A s \in 0 .. base - 1 : ServerHas(s)
        /\ client = "done" => feof /\ base = currseq
    BY <1>1, Numbers DEF AgreementOnTime, MarksTruthful, Agreement, WindowHoldsSent
  <2>2. \A s \in Nat : ServerHas(s) <=> s + 1 \in Elements(written)
    BY <1>1 DEF Agreement, ServerWrote
  <2>3. ASSUME NEW p \in 1..base
        PROVE  p \in Elements(written)
    <3>1. p - 1 \in 0 .. base - 1 /\ p - 1 \in Nat /\ (p - 1) + 1 = p
      BY <2>1
    <3> QED
      BY <2>1, <2>2, <3>1
  <2>4. NothingSkipped
    BY <2>1, <2>3 DEF NothingSkipped, Elements
  <2>5. ASSUME client = "done"
        PROVE  Len(written) = NumPackets
    <3>1. base = NumPackets
      BY <2>1, <2>5 DEF feof
    <3>2. written \in Seq(1..NumPackets) /\ Distinct(written)
      BY <1>1 DEF TypeOK, Agreement, ServerWrote, WrittenOnce, Distinct
    <3>3. Elements(written) = 1..NumPackets
      <4>1. Elements(written) \subseteq 1..NumPackets
        BY <3>2, ElementOfSeq DEF Elements
      <4> QED
        BY <2>3, <3>1, <4>1
    <3>4. Cardinality(Elements(written)) = Len(written)
      BY <3>2, CountElements
    <3>5. Cardinality(1..NumPackets) = NumPackets
      BY <2>1, FS_Interval
    <3> QED
      BY <3>3, <3>4, <3>5
  <2> QED
    BY <2>4, <2>5
<1> QED
  BY <1>1, AlwaysOnTime, PTL

-----------------------------------------------------------------------------
(* Numbers of a window that go through the same relay are told apart by    *)
(* half their distance from its beginning.                                 *)
LEMMA HalvesDiffer ==
    ASSUME NEW b \in Nat, NEW i \in Nat, NEW j \in Nat, b <= i, b <= j,
           RelayOf(i) = RelayOf(j), (i - b) \div 2 = (j - b) \div 2
    PROVE  i = j
<1>1. (i % 2) = (j % 2)
  <2>1. (i % 2) \in {0, 1} /\ (j % 2) \in {0, 1}
    OBVIOUS
  <2>2. "R1" # "R2"
    OBVIOUS
  <2> QED
    BY <2>1, <2>2 DEF RelayOf
<1> QED
  BY <1>1

(* So a buffer that holds different numbers of the window has room for     *)
(* another one.                                                            *)
LEMMA RoomInBuffer ==
    ASSUME BurstFits, NEW b \in Nat, NEW r, NEW S, NEW q \in Seq(S), Distinct(q),
           NEW e, e \notin Elements(q),
           \A s \in Elements(q) \cup {e} :
              s \in Nat /\ b <= s /\ s < b + WINDOW_SIZE /\ RelayOf(s) = r
    PROVE  Len(q) < Cap
<1> DEFINE A == Elements(q) \cup {e}
           f == [s \in A |-> (s - b) \div 2]
<1>1. WINDOW_SIZE \in Nat /\ Cap \in Nat \ {0} /\ WINDOW_SIZE <= 2 * Cap
  BY WindowAssumption, CapAssumption DEF BurstFits
<1>2. /\ IsFiniteSet(Elements(q)) /\ Cardinality(Elements(q)) = Len(q)
      /\ Len(q) \in Nat
  BY CountElements, LenProperties
<1>3. Cardinality(A) = Len(q) + 1
  BY <1>2, FS_AddElement
<1>4. \A s \in A : s \in Nat /\ b <= s /\ s < b + WINDOW_SIZE /\ RelayOf(s) = r
  OBVIOUS
<1> HIDE DEF A
<1>5. ASSUME NEW s \in A
      PROVE  (s - b) \div 2 \in 0 .. Cap - 1
  <2>1. s - b \in Nat /\ s - b <= 2 * Cap - 1
    BY <1>1, <1>4
  <2> DEFINE d == s - b
  <2>2. d \in Nat /\ d <= 2 * Cap - 1 /\ Cap \in Nat
    BY <1>1, <2>1
  <2> HIDE DEF d
  <2>3. d \div 2 \in 0 .. Cap - 1
    BY <2>2
  <2> QED
    BY <2>3 DEF d
<1>6. f \in Injection(A, 0 .. Cap - 1)
  <2>1. f \in [A -> 0 .. Cap - 1]
    BY <1>5
  <2>2. ASSUME NEW i \in A, NEW j \in A, f[i] = f[j]
        PROVE  i = j
    <3>1. (i - b) \div 2 = (j - b) \div 2
      BY <2>2
    <3> QED
      BY <1>4, <3>1, HalvesDiffer
  <2> HIDE DEF f
  <2>3. IsInjective(f)
    BY <2>1, <2>2 DEF IsInjective
  <2> QED
    BY <2>1, <2>3 DEF Injection
<1>7. IsFiniteSet(0 .. Cap - 1) /\ Cardinality(0 .. Cap - 1) = Cap
  <2>1. 0 \in Int /\ Cap - 1 \in Int
    BY <1>1
  <2>2. /\ IsFiniteSet(0 .. Cap - 1)
        /\ Cardinality(0 .. Cap - 1) = IF 0 > Cap - 1 THEN 0 ELSE (Cap - 1) - 0 + 1
    BY <2>1, FS_Interval
  <2>3. ~(0 > Cap - 1) /\ (Cap - 1) - 0 + 1 = Cap
    BY <1>1
  <2> QED
    BY <2>2, <2>3
<1> HIDE DEF f
<1>8. Cardinality(A) <= Cardinality(0 .. Cap - 1)
  BY <1>6, <1>7, FS_Injection
<1> QED
  BY <1>1, <1>2, <1>3, <1>7, <1>8

(* In particular for an answer to a packet the client waits for.           *)
LEMMA RoomForAnswer ==
    ASSUME BurstFits, TypeOK, Agreement, OnlyPending,
           base <= currseq, currseq <= base + WINDOW_SIZE,
           NEW r \in Relay, NEW q \in Seq(SeqNo), Distinct(q),
           Elements(q) \subseteq Elements(backToRelay[r]) \cup Elements(toClient[r]),
           NEW e \in Nat, e \notin Elements(q), Pending(e), RelayOf(e) = r
    PROVE  Len(q) < Cap
<1>1. base \in Nat /\ currseq \in Nat /\ WINDOW_SIZE \in Nat
  BY Numbers
<1>2. ASSUME NEW s \in Elements(q) \cup {e}
      PROVE  s \in Nat /\ base <= s /\ s < base + WINDOW_SIZE /\ RelayOf(s) = r
  <2>1. s \in Nat /\ Pending(s) /\ RelayOf(s) = r
    BY UnderWay DEF OnlyPending, Agreement
  <2> QED
    BY <1>1, <2>1 DEF Pending
<1> QED
  BY <1>1, <1>2, RoomInBuffer

(* The client's window, on time: also when the client has ended.           *)
LEMMA WindowOnTime ==
    ASSUME TypeOK, Agreement, MarksTruthful
    PROVE  base <= currseq /\ currseq <= base + WINDOW_SIZE
<1>1. base \in Nat /\ currseq \in Nat /\ WINDOW_SIZE \in Nat
  BY Numbers
<1>2. client \in {"running", "done"}
  BY DEF TypeOK
<1> QED
  BY <1>1, <1>2 DEF Agreement, WindowHoldsSent, MarksTruthful

-----------------------------------------------------------------------------
(* Nothing was sent.                                                       *)
LEMMA InitAcknowledging == Init => Acknowledging
<1> SUFFICES ASSUME Init PROVE Acknowledging
  OBVIOUS
<1>1. base .. currseq - 1 = {}
  BY DEF Init
<1> QED
  BY <1>1 DEF Acknowledging

(* A packet that is sent for the first time the server does not have.      *)
LEMMA SendNextAcknowledging ==
    ASSUME NoWrapAround, TypeOK, Agreement, Acknowledging, MarksTruthful, SendNext
    PROVE  Acknowledging'
<1>1. /\ base \in Nat /\ currseq \in Nat /\ chunks \in Nat /\ currseq = chunks
      /\ chunks < NumPackets /\ NumPackets \in Nat /\ MAX_SEQ_NO \in Nat
      /\ WINDOW_SIZE \in Nat \ {0} /\ NumPackets + WINDOW_SIZE <= MAX_SEQ_NO
      /\ base <= currseq /\ currseq < base + WINDOW_SIZE /\ rcv_base \in Nat
  <2>1. chunks # NumPackets /\ client = "running" /\ currseq < base + WINDOW_SIZE
    BY DEF SendNext, feof, WindowNotFull
  <2> QED
    BY <2>1, Numbers DEF Agreement, WindowHoldsSent, NoWrapAround
<1>2. currseq' = currseq + 1
  BY <1>1 DEF SendNext, Ahead
<1>3. /\ acks' = [acks EXCEPT ![Slot(currseq)] = 0] /\ acks \in [Slots -> Flag]
      /\ UNCHANGED <<base, serverVars, backToRelay, toClient>>
  BY DEF SendNext, TypeOK
<1>4. \A s : ServerHas(s)' <=> ServerHas(s)
  BY <1>3, ServerKeeps
<1>5. ~ServerHas(currseq)
  <2>1. /\ rcv_base <= currseq
        /\ \A s \in rcv_base .. rcv_base + WINDOW_SIZE - 1 :
              ackd[Slot(s)] = 1 => s < currseq
    BY DEF Agreement, ServerWrote
  <2>2. InWindow(currseq) => currseq \in rcv_base .. rcv_base + WINDOW_SIZE - 1
    BY <1>1 DEF InWindow
  <2> QED
    BY <1>1, <2>1, <2>2 DEF ServerHas
<1>6. ASSUME NEW s \in base .. currseq, acks'[Slot(s)] = 0, ServerHas(s)
      PROVE  s \in Elements(backToRelay[RelayOf(s)]) \cup Elements(toClient[RelayOf(s)])
  <2>1. s # currseq
    BY <1>5, <1>6
  <2>2. /\ s \in base .. base + WINDOW_SIZE - 1 /\ currseq \in base .. base + WINDOW_SIZE - 1
        /\ s \in Nat /\ s \in base .. currseq - 1
    BY <1>1, <2>1
  <2>3. Slot(s) # Slot(currseq)
    BY <1>1, <2>1, <2>2, SlotInjective
  <2>4. acks[Slot(s)] = 0
    BY <1>1, <1>3, <1>6, <2>2, <2>3, SlotType
  <2> QED
    BY <1>6, <2>2, <2>4 DEF Acknowledging
<1>7. ASSUME NEW s \in base' .. currseq' - 1, acks'[Slot(s)] = 0, ServerHas(s)'
      PROVE  s \in Elements(backToRelay'[RelayOf(s)]) \cup Elements(toClient'[RelayOf(s)])
  <2>1. s \in base .. currseq
    BY <1>1, <1>2, <1>3, <1>7
  <2> QED
    BY <1>3, <1>4, <1>6, <1>7, <2>1
<1> QED
  BY <1>7 DEF Acknowledging, Elements, Slot, RelayOf

(* Where neither the window nor the server changes, no answer may be lost. *)
LEMMA AcknowledgingKept ==
    ASSUME Acknowledging, UNCHANGED <<base, currseq, acks, serverVars>>,
           \A r \in Relay :
              Elements(backToRelay[r]) \cup Elements(toClient[r]) \subseteq
                 Elements(backToRelay'[r]) \cup Elements(toClient'[r])
    PROVE  Acknowledging'
<1>1. \A s : ServerHas(s)' <=> ServerHas(s)
  BY ServerKeeps
<1>2. ASSUME NEW s \in base .. currseq - 1, acks[Slot(s)] = 0, ServerHas(s)
      PROVE  s \in Elements(backToRelay'[RelayOf(s)]) \cup Elements(toClient'[RelayOf(s)])
  BY <1>2, RelayOfType DEF Acknowledging
<1> QED
  BY <1>1, <1>2 DEF Acknowledging, Elements, Slot, RelayOf

(* A timeout and a lost packet leave the acknowledgements alone.           *)
LEMMA PassingAcknowledging ==
    ASSUME TypeOK, Acknowledging,
           Timeout \/ (\E r \in Relay : DropData(r)) \/ UNCHANGED vars
    PROVE  Acknowledging'
<1>1. UNCHANGED <<base, currseq, acks, serverVars, backToRelay, toClient>>
  BY DEF Timeout, DropData, clientVars, vars
<1> QED
  BY <1>1, AcknowledgingKept

(* The relay's buffer towards the client has room for the answer.          *)
LEMMA ForwardAcknowledging ==
    ASSUME BurstFits, TypeOK, Agreement, InOnePlace, OnlyPending, MarksTruthful,
           Acknowledging, NEW r \in Relay, Forward(r)
    PROVE  Acknowledging'
<1>1. UNCHANGED <<base, currseq, acks, serverVars>>
  BY DEF Forward, clientVars
<1>2. PassedOn(backToRelay, toClient, backToRelay', toClient', r)
  BY ForwardPassesOn
<1>3. backToRelay \in [Relay -> Seq(SeqNo)] /\ toClient \in [Relay -> Seq(SeqNo)]
  BY DEF TypeOK
<1>4. ASSUME NEW x \in Relay
      PROVE  Elements(backToRelay[x]) \cup Elements(toClient[x]) \subseteq
                Elements(backToRelay'[x]) \cup Elements(toClient'[x])
  <2> DEFINE e == Head(backToRelay[r])
  <2>1. CASE backToRelay' = backToRelay /\ toClient' = toClient
    BY <2>1
  <2>2. CASE /\ Readable(backToRelay[r])
             /\ backToRelay' = [backToRelay EXCEPT ![r] = Tail(backToRelay[r])]
             /\ toClient' = [toClient EXCEPT ![r] = SendTo(toClient[r], e)]
    <3>1. CASE x # r
      <4>1. backToRelay'[x] = backToRelay[x] /\ toClient'[x] = toClient[x]
        BY <1>3, <2>2, <3>1
      <4> QED
        BY <4>1
    <3>2. CASE x = r
      <4>1. backToRelay'[x] = Tail(backToRelay[r]) /\ toClient'[x] = SendTo(toClient[r], e)
        BY <1>3, <2>2, <3>2
      <4>2. /\ e \in SeqNo /\ e \in Elements(backToRelay[r])
            /\ Elements(backToRelay[r]) \subseteq Elements(Tail(backToRelay[r])) \cup {e}
        BY <2>2, BufferTypes, TailElements
      <4>3. e \notin Elements(toClient[r]) /\ Distinct(toClient[r])
        BY <4>2 DEF InOnePlace, OnePlace
      <4>4. Pending(e) /\ e \in Nat /\ RelayOf(e) = r
        BY <4>2, UnderWay DEF OnlyPending, Agreement
      <4>5. toClient[r] \in Seq(SeqNo) /\ Len(toClient[r]) <= Cap
        BY BufferTypes
      <4> HIDE DEF e
      <4>6. Len(toClient[r]) < Cap
        BY <4>3, <4>4, <4>5, RoomForAnswer, WindowOnTime
      <4>7. /\ e \in Elements(SendTo(toClient[r], e))
            /\ Elements(toClient[r]) \subseteq Elements(SendTo(toClient[r], e))
        BY <4>2, <4>5, <4>6, SendToElements
      <4> QED
        BY <3>2, <4>1, <4>2, <4>7
    <3> QED
      BY <3>1, <3>2
  <2> QED
    BY <1>2, <2>1, <2>2 DEF PassedOn
<1> QED
  BY <1>1, <1>4, AcknowledgingKept

(* An answer that leaves the buffer marks the slot of its packet.          *)
LEMMA ReceiveAcksAcknowledging ==
    ASSUME NoWrapAround, TypeOK, Agreement, InOnePlace, OnlyPending, MarksTruthful,
           Acknowledging, ReceiveAcks
    PROVE  Acknowledging'
<1> DEFINE n == SlideLength(base, Marked)
<1>1. UNCHANGED <<currseq, serverVars, backToRelay>>
  BY DEF ReceiveAcks
<1>2. /\ n \in 0..WINDOW_SIZE /\ base' = base + n
      /\ base <= currseq /\ currseq <= base + WINDOW_SIZE
      /\ \A s \in base + n .. base + WINDOW_SIZE - 1 : acks'[Slot(s)] = Marked[Slot(s)]
  BY ClientSlide DEF Agreement
<1> HIDE DEF n
<1>3. base \in Nat /\ currseq \in Nat /\ WINDOW_SIZE \in Nat
  BY Numbers
<1>4. \A s : ServerHas(s)' <=> ServerHas(s)
  BY <1>1, ServerKeeps
<1>5. ASSUME NEW s \in base' .. currseq - 1, acks'[Slot(s)] = 0, ServerHas(s)
      PROVE  s \in Elements(backToRelay[RelayOf(s)]) \cup Elements(toClient'[RelayOf(s)])
  <2> DEFINE r == RelayOf(s)
  <2>1. /\ s \in base + n .. base + WINDOW_SIZE - 1 /\ s \in base .. base + WINDOW_SIZE - 1
        /\ s \in base .. currseq - 1 /\ s \in Nat
    BY <1>2, <1>3
  <2>2. Marked[Slot(s)] = 0
    BY <1>2, <1>5, <2>1
  <2>3. acks[Slot(s)] # 1 /\ \A x \in Ready(toClient) : s # Head(toClient[x])
    BY <1>2, <2>1, <2>2, MarkedOnTime
  <2>4. acks[Slot(s)] = 0
    BY <2>1, <2>3, SlotType DEF TypeOK, Flag
  <2>5. r \in Relay
    BY RelayOfType
  <2> HIDE DEF r
  <2>6. s \in Elements(backToRelay[r]) \cup Elements(toClient[r])
    BY <1>5, <2>1, <2>4 DEF Acknowledging, r
  <2>7. Readable(toClient[r]) => s # Head(toClient[r])
    BY <2>3, <2>5 DEF Ready
  <2>8. toClient'[r] = IF Readable(toClient[r]) THEN Tail(toClient[r]) ELSE toClient[r]
    BY <2>5 DEF ReceiveAcks, TakenFrom
  <2>9. Elements(toClient[r]) \subseteq Elements(toClient'[r]) \cup
           (IF Readable(toClient[r]) THEN {Head(toClient[r])} ELSE {})
    <3>1. toClient[r] \in Seq(SeqNo) /\ Len(toClient[r]) <= Cap
      BY <2>5, BufferTypes
    <3>2. Distinct(toClient[r])
      BY <2>5 DEF InOnePlace, OnePlace
    <3> QED
      BY <2>8, <3>1, <3>2, TakenOnce
  <2> QED
    BY <2>6, <2>7, <2>9 DEF r
<1>6. ASSUME NEW s \in base' .. currseq' - 1, acks'[Slot(s)] = 0, ServerHas(s)'
      PROVE  s \in Elements(backToRelay'[RelayOf(s)]) \cup Elements(toClient'[RelayOf(s)])
  BY <1>1, <1>4, <1>5, <1>6
<1> QED
  BY <1>6 DEF Acknowledging, Elements, Slot, RelayOf

(* What the server takes it answers, and the answer finds room.            *)
LEMMA ServerTurnAcknowledging ==
    ASSUME NoWrapAround, BurstFits, TypeOK, Agreement, InOnePlace, OnlyPending,
           MarksTruthful, Acknowledging, ServerTurn
    PROVE  Acknowledging'
<1>1. UNCHANGED <<base, currseq, acks, toClient>>
  BY DEF ServerTurn, clientVars
<1>2. base \in Nat /\ currseq \in Nat
  BY Numbers
<1>3. ASSUME NEW r \in Relay
      PROVE  Elements(backToRelay[r]) \subseteq Elements(backToRelay'[r])
  <2>1. CASE Readable(toServer[r]) /\ Acknowledged(Num(r))
    <3>1. backToRelay'[r] = SendTo(backToRelay[r], Num(r))
      BY <2>1 DEF ServerTurn, Num
    <3>2. Num(r) \in SeqNo
      BY <2>1, HeadGenuine DEF Agreement
    <3> QED
      BY <3>1, <3>2, BufferTypes, SendToElements
  <2>2. CASE ~(Readable(toServer[r]) /\ Acknowledged(Num(r)))
    <3>1. backToRelay'[r] = backToRelay[r]
      BY <2>2 DEF ServerTurn, Num
    <3> QED
      BY <3>1
  <2> QED
    BY <2>1, <2>2
<1>4. ASSUME NEW r \in Relay, NewFrom(r)
      PROVE  RelayOf(Num(r)) = r /\ Num(r) \in Elements(backToRelay'[r])
  <2> DEFINE e == Num(r)
  <2>1. Readable(toServer[r]) /\ Acknowledged(e)
    BY <1>4 DEF NewFrom, IsNew, Acknowledged, Num
  <2>2. backToRelay'[r] = SendTo(backToRelay[r], e)
    BY <2>1 DEF ServerTurn, Num
  <2>3. /\ e \in SeqNo /\ e \in Nat /\ RelayOf(e) = r
        /\ Head(toServer[r]) \in Elements(toServer[r])
    BY <2>1, HeadGenuine DEF Agreement
  <2>4. Pending(e) /\ e \notin Elements(backToRelay[r]) /\ Distinct(backToRelay[r])
    BY <2>3 DEF OnlyPending, InOnePlace, OnePlace, Num
  <2>5. backToRelay[r] \in Seq(SeqNo) /\ Len(backToRelay[r]) <= Cap
    BY BufferTypes
  <2> HIDE DEF e
  <2>6. Len(backToRelay[r]) < Cap
    BY <2>3, <2>4, <2>5, RoomForAnswer, WindowOnTime
  <2>7. e \in Elements(SendTo(backToRelay[r], e))
    BY <2>3, <2>5, <2>6, SendToElements
  <2> QED
    BY <2>2, <2>3, <2>7 DEF e
<1>5. ASSUME NEW s \in base .. currseq - 1, acks[Slot(s)] = 0, ServerHas(s)'
      PROVE  s \in Elements(backToRelay'[RelayOf(s)]) \cup Elements(toClient[RelayOf(s)])
  <2>1. s \in Nat
    BY <1>2
  <2>2. ServerHas(s) \/ \E r \in Relay : NewFrom(r) /\ s = Num(r)
    BY <1>5, <2>1, TurnHas
  <2>3. CASE ServerHas(s)
    BY <1>3, <1>5, <2>3, RelayOfType DEF Acknowledging
  <2>4. CASE \E r \in Relay : NewFrom(r) /\ s = Num(r)
    BY <1>4, <2>4
  <2> QED
    BY <2>2, <2>3, <2>4
<1>6. ASSUME NEW s \in base' .. currseq' - 1, acks'[Slot(s)] = 0, ServerHas(s)'
      PROVE  s \in Elements(backToRelay'[RelayOf(s)]) \cup Elements(toClient'[RelayOf(s)])
  BY <1>1, <1>5, <1>6
<1> QED
  BY <1>6 DEF Acknowledging, Elements, Slot, RelayOf

(* No step loses an answer while no timeout has come too early.            *)
LEMMA StepAcked ==
    NoWrapAround /\ BurstFits /\ TypeOK /\ Agreement /\ AgreementOnTime
        /\ AckedOnTime /\ [Next]_vars => AckedOnTime'
<1> SUFFICES ASSUME NoWrapAround, BurstFits, TypeOK, Agreement, AgreementOnTime,
                    AckedOnTime, [Next]_vars, early' = 0
             PROVE  Acknowledging'
  BY DEF AckedOnTime
<1>1. early = 0
  <2>1. early \in Nat
    BY EarlyAssumption DEF TypeOK
  <2>2. early' = early \/ early' = early + 1
    BY DEF Next, Client, SendNext, Timeout, ReceiveAcks, DropData, Forward, ServerTurn,
           clientVars, vars
  <2> QED
    BY <2>1, <2>2
<1>2. InOnePlace /\ OnlyPending /\ MarksTruthful /\ Acknowledging
  BY <1>1 DEF AgreementOnTime, AckedOnTime
<1>3. CASE SendNext
  BY <1>2, <1>3, SendNextAcknowledging
<1>4. CASE ReceiveAcks
  BY <1>2, <1>4, ReceiveAcksAcknowledging
<1>5. CASE \E r \in Relay : Forward(r)
  BY <1>2, <1>5, ForwardAcknowledging
<1>6. CASE ServerTurn
  BY <1>2, <1>6, ServerTurnAcknowledging
<1>7. CASE Timeout \/ (\E r \in Relay : DropData(r)) \/ UNCHANGED vars
  BY <1>2, <1>7, PassingAcknowledging
<1> QED
  BY <1>3, <1>4, <1>5, <1>6, <1>7 DEF Next, Client

(* The invariant of the theorem below.                                     *)
LEMMA AlwaysAcked ==
    ASSUME NoWrapAround, BurstFits
    PROVE  Spec => [](TypeOK /\ Agreement /\ AgreementOnTime /\ AckedOnTime)
<1>1. Init => TypeOK /\ Agreement /\ AgreementOnTime /\ AckedOnTime
  BY InitTypes, InitAgreement, InitOnTime, InitAcknowledging
     DEF AgreementOnTime, AckedOnTime
<1>2. TypeOK /\ Agreement /\ AgreementOnTime /\ AckedOnTime /\ [Next]_vars
         => (TypeOK /\ Agreement /\ AgreementOnTime /\ AckedOnTime)'
  BY StepTypes, StepAgreement, StepOnTime, StepAcked
<1> QED
  BY <1>1, <1>2, PTL DEF Spec

(* If what a window sends through a relay fits in a buffer, an answer is   *)
(* never lost: when nothing is in transit the marks of the client are the  *)
(* packets of its window the server has, and a timeout sends again what    *)
(* was dropped and nothing else (client.c:236-241).                        *)
THEOREM AlwaysAgreeAtRest ==
    ASSUME NoWrapAround, BurstFits PROVE Spec => []AgreeAtRest
<1>1. ASSUME TypeOK, Agreement, AgreementOnTime, AckedOnTime
      PROVE  AgreeAtRest
  <2> SUFFICES ASSUME early = 0, NothingInTransit, Ready(toClient) = {},
                      NEW s \in base .. currseq - 1
               PROVE  acks[Slot(s)] = 1 <=> ServerHas(s)
    BY DEF AgreeAtRest
  <2>1. MarksTruthful /\ Acknowledging
    BY <1>1 DEF AgreementOnTime, AckedOnTime
  <2>2. s \in base .. base + WINDOW_SIZE - 1 /\ s \in Nat
    BY <1>1, <2>1, Numbers, WindowOnTime
  <2>3. acks[Slot(s)] \in {0, 1}
    BY <1>1, <2>2, SlotType DEF TypeOK, Flag
  <2>4. ASSUME NEW r \in Relay
        PROVE  Elements(backToRelay[r]) = {} /\ Elements(toClient[r]) = {}
    <3>1. ~Readable(backToRelay[r]) /\ ~Readable(toClient[r])
      BY DEF NothingInTransit, Ready
    <3>2. Len(backToRelay[r]) = 0 /\ Len(toClient[r]) = 0
      BY <1>1, <3>1, BufferTypes, EmptySeq DEF Readable
    <3>3. 1 .. 0 = {}
      OBVIOUS
    <3> QED
      BY <3>2, <3>3 DEF Elements
  <2>5. acks[Slot(s)] = 1 => ServerHas(s)
    BY <2>1, <2>2 DEF MarksTruthful
  <2>6. ServerHas(s) => acks[Slot(s)] # 0
    BY <2>1, <2>4, RelayOfType DEF Acknowledging
  <2> QED
    BY <2>3, <2>5, <2>6
<1> QED
  BY <1>1, AlwaysAcked, PTL
=============================================================================
