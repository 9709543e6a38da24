------------------------- MODULE ForkingServersProofs -------------------------
(***************************************************************************)
(* Proofs about the servers that fork a child for every client: first the  *)
(* key-value server (KeyValueStore), for every number of clients, every    *)
(* set of keys and values, every limit on the processes and every database *)
(* to begin with: its types, that temp.txt is private, when clients are    *)
(* turned away, and that commands of which no del overlaps another put or  *)
(* del act on one store, with current answers.  Then the chat and the echo *)
(* (ForkedServer), for every set of clients, every size of the buffer and  *)
(* every limit on the processes: their types, what an echo is made of, and *)
(* who gets the operator's answers.                                        *)
(***************************************************************************)
EXTENDS KeyValueStore, ForkedServer, SequenceTheorems, FiniteSetTheorems,
        WellFoundedInduction, TLAPS

-----------------------------------------------------------------------------
(* THE KEY-VALUE SERVER.                                                   *)

Using == Writing \cup {"get_opened"}

(* A child uses only files that it has opened, for the key it was given.   *)
Opened ==
    \A c \in Child : /\ pc[c] \in Using => fp[c] # 0 /\ key[c] \in Key
                     /\ pc[c] = "put_opened" => value[c] \in Value
                     /\ pc[c] \in Copying \ {"del_opened"} => tfp[c] # 0

(* The clients with which the server has talked. *)
Served == {c \in Child : pc[c] \notin {"connecting", "refused"}}

(* As long as nobody has said bye there is the parent, one child for every *)
(* client served, and a client is turned away only for want of a process.  *)
Processes ==
    /\ \A c \in Child : pc[c] = "forking" => c \in byes
    /\ byes = {} => procs = 1 + Cardinality(Served)
    /\ byes = {} /\ MAXPROC > Cardinality(Child) =>
          \A c \in Child : pc[c] # "refused"

(* A del that is alone among those that write: it has read nothing yet, or *)
(* all of the store, its temp.txt is empty until it is closed, and holds   *)
(* the lines of the other keys after that.                                 *)
DelAlone(c) ==
    /\ \A d \in Child \ {c} : pc[d] \notin Writing
    /\ fp[c] = database
    /\ \/ pos[c] = 0 /\ lines[c] = <<>>
       \/ pos[c] = Len(pairs) /\ lines[c] = Without(pairs, key[c])
    /\ pc[c] # "del_opened" => tfp[c] = temp
    /\ pc[c] \in {"del_copying", "del_copied"} => files[temp] = <<>>
    /\ pc[c] \in {"del_copied", "del_closed"} => pos[c] = Len(pairs)
    /\ pc[c] = "del_closed" => files[temp] = Without(pairs, key[c])

(* The file of a get holds whole lines, and the first one of its key has a *)
(* value that was seen since the command came.                             *)
GetCurrent(c) ==
    /\ files[fp[c]] \in Seq(Pair)
    /\ Lookup(files[fp[c]], key[c]) \in seen[c]

(* What holds as long as no del has overlapped another put or del.         *)
Serial ==
    /\ Content = pairs
    /\ \A c \in Child : /\ pc[c] = "put_opened" => fp[c] = database
                        /\ pc[c] \in Copying => DelAlone(c)
                        /\ pc[c] = "get_opened" => GetCurrent(c)

SerialUnlessRaced == ~raced => Serial

-----------------------------------------------------------------------------
(* Every set of numbers that is not empty has a least one. *)
LEMMA LeastNumber ==
    ASSUME NEW S \in SUBSET Nat, S # {}
    PROVE  \E n \in S : \A m \in S : n <= m
<1>1. PICK n \in S : \A m \in S : ~(<<m, n>> \in OpToRel(<, Nat))
  BY NatLessThanWellFounded, WFMin
<1>2. \A m \in S : <<m, n>> \in OpToRel(<, Nat) <=> m < n
  BY DEF OpToRel
<1>3. \A m \in S : ~(m < n)
  BY <1>1, <1>2
<1>4. \A m \in S : m \in Nat /\ n \in Nat
  OBVIOUS
<1> QED
  BY <1>3, <1>4

(* Induction over the numbers, for a property given as a set.              *)
LEMMA SetInduction ==
    ASSUME NEW S, 0 \in S, \A n \in Nat : n \in S => n + 1 \in S
    PROVE  Nat \subseteq S
<1> DEFINE Missing == {n \in Nat : n \notin S}
<1> SUFFICES ASSUME Missing # {} PROVE FALSE
  OBVIOUS
<1>1. PICK n \in Missing : \A m \in Missing : n <= m
  BY LeastNumber
<1>2. n \in Nat \ {0} /\ n - 1 \in Nat
  BY <1>1
<1>3. n - 1 \in S
  BY <1>1, <1>2
<1> QED
  BY <1>1, <1>2, <1>3

(* The function that OtherLines computes, and that there is one.           *)
LineStep(f, s, keys, i) ==
    IF i = 0 THEN <<>>
    ELSE IF s[i].key \in keys THEN f[i - 1]
    ELSE Append(f[i - 1], s[i])

KeepsOthers(f, s, keys, n) == f = [i \in 0..n |-> LineStep(f, s, keys, i)]

(* Its values, one after the other. *)
LEMMA KeepsOthersValues ==
    ASSUME NEW f, NEW s, NEW keys, NEW n \in Nat, KeepsOthers(f, s, keys, n)
    PROVE  /\ f[0] = <<>>
           /\ \A i \in 1..n : f[i] = IF s[i].key \in keys THEN f[i - 1]
                                     ELSE Append(f[i - 1], s[i])
<1>1. \A i \in 0..n : f[i] = LineStep(f, s, keys, i)
  BY DEF KeepsOthers
<1> QED
  BY <1>1 DEF LineStep

LEMMA KeepsOthersExists ==
    ASSUME NEW s, NEW keys
    PROVE  \A n \in Nat : \E f : KeepsOthers(f, s, keys, n)
<1> DEFINE S == {n \in Nat : \E f : KeepsOthers(f, s, keys, n)}
<1>1. 0 \in S
  <2> DEFINE f == [i \in 0..0 |-> <<>>]
  <2>1. \A i \in 0..0 : f[i] = LineStep(f, s, keys, i)
    BY DEF LineStep
  <2>2. KeepsOthers(f, s, keys, 0)
    BY <2>1 DEF KeepsOthers
  <2> QED
    BY <2>2
<1>2. ASSUME NEW n \in Nat, n \in S PROVE n + 1 \in S
  <2>1. PICK f : KeepsOthers(f, s, keys, n)
    BY <1>2
  <2> DEFINE g == [i \in 0..n + 1 |->
                      IF i = n + 1 THEN LineStep(f, s, keys, n + 1) ELSE f[i]]
  <2>2. \A i \in 0..n : f[i] = LineStep(f, s, keys, i)
    BY <2>1 DEF KeepsOthers
  <2>3. \A i \in 0..n + 1 : LineStep(g, s, keys, i) = LineStep(f, s, keys, i)
    BY DEF LineStep
  <2>4. \A i \in 0..n + 1 : g[i] = LineStep(g, s, keys, i)
    BY <2>2, <2>3
  <2>5. KeepsOthers(g, s, keys, n + 1)
    BY <2>4 DEF KeepsOthers
  <2> QED
    BY <2>5
<1> HIDE DEF S
<1>3. Nat \subseteq S
  BY <1>1, <1>2, SetInduction
<1> QED
  BY <1>3 DEF S

LEMMA OtherLinesDef ==
    ASSUME NEW s, NEW keys, Len(s) \in Nat
    PROVE  \E f : KeepsOthers(f, s, keys, Len(s)) /\ OtherLines(s, keys) = f[Len(s)]
<1> DEFINE f == CHOOSE f : KeepsOthers(f, s, keys, Len(s))
<1>1. KeepsOthers(f, s, keys, Len(s))
  BY KeepsOthersExists
<1>2. OtherLines(s, keys) = f[Len(s)]
  BY DEF OtherLines, KeepsOthers, LineStep
<1> QED
  BY <1>1, <1>2

(* A selection of lines consists of lines. *)
LEMMA OtherLinesType ==
    ASSUME NEW S, NEW s \in Seq(S), NEW keys
    PROVE  OtherLines(s, keys) \in Seq(S)
<1>1. Len(s) \in Nat
  BY LenProperties
<1>2. PICK f : KeepsOthers(f, s, keys, Len(s)) /\ OtherLines(s, keys) = f[Len(s)]
  BY <1>1, OtherLinesDef
<1> DEFINE T == {n \in Nat : n <= Len(s) => f[n] \in Seq(S)}
<1>3. 0 \in T
  <2>1. f[0] = <<>> /\ <<>> \in Seq(S)
    BY <1>1, <1>2, KeepsOthersValues
  <2> QED
    BY <2>1
<1>4. ASSUME NEW n \in Nat, n \in T PROVE n + 1 \in T
  <2> SUFFICES ASSUME n + 1 <= Len(s) PROVE f[n + 1] \in Seq(S)
    OBVIOUS
  <2>1. n + 1 \in 1..Len(s) /\ f[n] \in Seq(S) /\ (n + 1) - 1 = n
    BY <1>1, <1>4
  <2>2. s[n + 1] \in S
    BY <2>1, ElementOfSeq
  <2>3. f[n + 1] = IF s[n + 1].key \in keys THEN f[n] ELSE Append(f[n], s[n + 1])
    BY <1>1, <1>2, <2>1, KeepsOthersValues
  <2> QED
    BY <2>1, <2>2, <2>3, AppendProperties
<1> HIDE DEF T
<1>5. Len(s) \in T
  BY <1>1, <1>3, <1>4, SetInduction
<1> QED
  BY <1>1, <1>2, <1>5 DEF T

LEMMA NoOtherLines ==
    ASSUME NEW keys
    PROVE  OtherLines(<<>>, keys) = <<>>
<1>1. Len(<<>>) = 0 /\ 0 \in Nat
  OBVIOUS
<1>2. PICK f : KeepsOthers(f, <<>>, keys, 0) /\ OtherLines(<<>>, keys) = f[0]
  BY <1>1, OtherLinesDef
<1> QED
  BY <1>1, <1>2, KeepsOthersValues

(* Only the keys that lines have matter. *)
LEMMA SameOtherLines ==
    ASSUME NEW S, NEW s \in Seq(S), NEW keys, NEW more,
           \A l \in S : l.key \in keys <=> l.key \in more
    PROVE  OtherLines(s, keys) = OtherLines(s, more)
<1>1. Len(s) \in Nat
  BY LenProperties
<1>2. PICK f : KeepsOthers(f, s, keys, Len(s)) /\ OtherLines(s, keys) = f[Len(s)]
  BY <1>1, OtherLinesDef
<1>3. PICK g : KeepsOthers(g, s, more, Len(s)) /\ OtherLines(s, more) = g[Len(s)]
  BY <1>1, OtherLinesDef
<1> DEFINE T == {n \in Nat : n <= Len(s) => f[n] = g[n]}
<1>4. 0 \in T
  BY <1>1, <1>2, <1>3, KeepsOthersValues
<1>5. ASSUME NEW n \in Nat, n \in T PROVE n + 1 \in T
  <2> SUFFICES ASSUME n + 1 <= Len(s) PROVE f[n + 1] = g[n + 1]
    OBVIOUS
  <2>1. n + 1 \in 1..Len(s) /\ f[n] = g[n] /\ (n + 1) - 1 = n
    BY <1>1, <1>5
  <2>2. s[n + 1].key \in keys <=> s[n + 1].key \in more
    BY <2>1, ElementOfSeq
  <2>3. f[n + 1] = IF s[n + 1].key \in keys THEN f[n] ELSE Append(f[n], s[n + 1])
    BY <1>1, <1>2, <2>1, KeepsOthersValues
  <2>4. g[n + 1] = IF s[n + 1].key \in more THEN g[n] ELSE Append(g[n], s[n + 1])
    BY <1>1, <1>3, <2>1, KeepsOthersValues
  <2> QED
    BY <2>1, <2>2, <2>3, <2>4
<1> HIDE DEF T
<1>6. Len(s) \in T
  BY <1>1, <1>4, <1>5, SetInduction
<1> QED
  BY <1>1, <1>2, <1>3, <1>6 DEF T

(* The store has no torn lines, so that it does not matter whether these   *)
(* are taken for lines of the key.                                         *)
LEMMA KeptIsWithout ==
    ASSUME NEW s \in Seq(Pair), NEW k \in Key, NEW keys \in {{k}, {k, None}}
    PROVE  Kept(s, keys) = Without(s, k)
<1>1. \A l \in Pair : l.key \in keys <=> l.key \in {k}
  BY NoneAssumption DEF Pair
<1> QED
  BY <1>1, SameOtherLines DEF Kept, Without

(* The first line of a key is one of the lines: an answer is a value, or   *)
(* says that there is none.                                                *)
LEMMA LookupType ==
    ASSUME NEW s \in Seq(Line), NEW k
    PROVE  Lookup(s, k) \in Answer
<1>1. CASE \E i \in 1..Len(s) : s[i].key = k
  <2> DEFINE S == {i \in 1..Len(s) : s[i].key = k}
  <2>1. Len(s) \in Nat
    BY LenProperties
  <2>2. S \in SUBSET Nat /\ S # {}
    BY <1>1, <2>1
  <2>3. PICK i \in S : \A j \in S : i <= j
    BY <2>2, LeastNumber
  <2>4. i \in 1..Len(s) /\ IsFirst(s, k, i)
    BY <2>1, <2>3 DEF IsFirst
  <2> DEFINE n == CHOOSE j \in 1..Len(s) : IsFirst(s, k, j)
  <2>5. n \in 1..Len(s)
    BY <2>4
  <2>6. s[n] \in Line
    BY <2>5, ElementOfSeq
  <2>7. s[n].value \in Answer
    BY <2>6 DEF Line, Pair, Torn, Answer
  <2> QED
    BY <1>1, <2>7 DEF Lookup
<1>2. CASE ~ \E i \in 1..Len(s) : s[i].key = k
  BY <1>2 DEF Lookup, Answer
<1> QED
  BY <1>1, <1>2

(* What a file holds when it has been overwritten. *)
LEMMA OverwrittenType ==
    ASSUME NEW old \in Seq(Line), NEW new \in Seq(Line)
    PROVE  /\ Overwritten(old, new) \subseteq Seq(Line)
           /\ old = <<>> => Overwritten(old, new) = {new}
<1>1. CASE new = <<>> \/ old = <<>>
  BY <1>1 DEF Overwritten
<1>2. CASE ~(new = <<>> \/ old = <<>>)
  <2>1. Len(old) \in Nat
    BY LenProperties
  <2>2. ASSUME NEW i \in 2..Len(old) + 1
        PROVE  /\ new \o SubSeq(old, i, Len(old)) \in Seq(Line)
               /\ new \o <<Torn>> \o SubSeq(old, i, Len(old)) \in Seq(Line)
    <3>1. \A j \in i..Len(old) : old[j] \in Line
      BY <2>1, ElementOfSeq
    <3>2. SubSeq(old, i, Len(old)) \in Seq(Line)
      BY <2>1, <3>1, SubSeqProperties
    <3>3. <<Torn>> \in Seq(Line)
      BY DEF Line
    <3>4. new \o <<Torn>> \in Seq(Line)
      BY <3>3, ConcatProperties
    <3> QED
      BY <3>2, <3>4, ConcatProperties
  <2> QED
    BY <1>2, <2>2 DEF Overwritten
<1> QED
  BY <1>1, <1>2

-----------------------------------------------------------------------------
(* Every action keeps the types, and that a child uses files it has        *)
(* opened.  First those of the files, which the others depend on.          *)
LEMMA FilesType ==
    TypeOK => Len(files) \in Nat /\ \A f \in 1..Len(files) : files[f] \in Seq(Line)
  BY LenProperties, ElementOfSeq DEF TypeOK

LEMMA NewFile ==
    ASSUME TypeOK, files' = Append(files, <<>>)
    PROVE  /\ files' \in Seq(Seq(Line)) /\ Len(files') = Len(files) + 1
           /\ files'[Len(files) + 1] = <<>>
           /\ \A f \in 1..Len(files) : files'[f] = files[f]
<1>1. <<>> \in Seq(Line) /\ files \in Seq(Seq(Line))
  BY DEF TypeOK
<1> QED
  BY <1>1, AppendProperties

LEMMA ChangedFile ==
    ASSUME TypeOK, NEW f \in 1..Len(files), NEW s \in Seq(Line),
           files' = [files EXCEPT ![f] = s]
    PROVE  /\ files' \in Seq(Seq(Line)) /\ Len(files') = Len(files)
           /\ \A g \in 1..Len(files) : files'[g] = IF g = f THEN s ELSE files[g]
<1>1. files \in Seq(Seq(Line))
  BY DEF TypeOK
<1> QED
  BY <1>1, ExceptSeq

LEMMA AcceptTypes ==
    ASSUME TypeOK, Opened, NEW c \in Child, Accept(c)
    PROVE  TypeOK' /\ Opened'
<1>1. procs' \in 1..MAXPROC
  BY ProcAssumption DEF Accept, TypeOK
<1>2. pc' = [pc EXCEPT ![c] = "recv"] \/ pc' = [pc EXCEPT ![c] = "refused"]
  BY DEF Accept
<1>3. TypeOK'
  BY <1>1, <1>2 DEF Accept, TypeOK, command, opened, copy, names, history
<1>4. Opened'
  BY <1>2 DEF Accept, TypeOK, Opened, Using, Writing, Copying, command, opened
<1> QED
  BY <1>3, <1>4

LEMMA PutOpenTypes ==
    ASSUME TypeOK, Opened, NEW c \in Child, NEW k \in Key, NEW v \in Value,
           PutOpen(c, k, v)
    PROVE  TypeOK' /\ Opened'
<1>1. /\ files' \in Seq(Seq(Line)) /\ Len(files) \in Nat /\ Len(files') \in Nat
      /\ Len(files') >= Len(files)
      /\ database' \in 1..Len(files')
  <2>1. Len(files) \in Nat
    BY FilesType
  <2>2. CASE database = 0
    BY <2>1, <2>2, NewFile DEF PutOpen
  <2>3. CASE database # 0
    BY <2>1, <2>3 DEF PutOpen, TypeOK
  <2> QED
    BY <2>2, <2>3
<1>2. /\ pc' = [pc EXCEPT ![c] = "put_opened"]
      /\ fp' = [fp EXCEPT ![c] = database']
      /\ key' = [key EXCEPT ![c] = k] /\ value' = [value EXCEPT ![c] = v]
      /\ UNCHANGED <<tfp, temp, lines, pos, reply, seen>>
  BY DEF PutOpen, Command, copy
<1>3. fp' \in [Child -> 0..Len(files')] /\ tfp' \in [Child -> 0..Len(files')]
  <2>1. fp \in [Child -> 0..Len(files)] /\ tfp \in [Child -> 0..Len(files)]
    BY DEF TypeOK
  <2>2. \A n \in 0..Len(files) : n \in 0..Len(files')
    BY <1>1
  <2>3. \A n \in 1..Len(files') : n \in 0..Len(files')
    BY <1>1
  <2>4. \A d \in Child : fp'[d] \in 0..Len(files') /\ tfp'[d] \in 0..Len(files')
    BY <1>1, <1>2, <2>1, <2>2, <2>3
  <2> QED
    BY <1>2, <2>1, <2>4
<1>4. pc' \in [Child -> Writing \cup
          {"connecting", "recv", "get_opened", "unanswered", "forking",
           "refused", "gone", "no_file", "bad_line", "bad_copy", "no_temp"}]
  BY <1>2 DEF TypeOK, Writing
<1>5. database' \in 0..Len(files') /\ temp' \in 0..Len(files')
  BY <1>1, <1>2 DEF TypeOK
<1>6. issued' \in 0..MaxCommands /\ raced' \in BOOLEAN
      /\ UNCHANGED <<procs, byes, deleted, pairs>>
  BY ProcAssumption DEF PutOpen, Command, TypeOK
<1>7. key' \in [Child -> Key \cup {None}] /\ value' \in [Child -> Value \cup {None}]
  BY <1>2 DEF TypeOK
<1>8. TypeOK'
  BY <1>1, <1>2, <1>3, <1>4, <1>5, <1>6, <1>7 DEF TypeOK
<1>9. Opened'
  <2>1. database' # 0 /\ DOMAIN pc = Child /\ DOMAIN fp = Child /\ DOMAIN key = Child
        /\ DOMAIN value = Child
    BY <1>1 DEF TypeOK
  <2> QED
    BY <1>2, <2>1 DEF Opened, Using, Writing, Copying
<1> QED
  BY <1>8, <1>9

(* What the gets that are under way see in the store is an answer. *)
LEMMA NowSeenType ==
    ASSUME TypeOK, pairs' \in Seq(Pair), NowSeen
    PROVE  seen' \in [Child -> SUBSET Answer]
<1>1. pairs' \in Seq(Line)
  BY SeqMonotonic DEF Line
<1>2. \A c \in Child : Lookup(pairs', key[c]) \in Answer
  BY <1>1, LookupType
<1> QED
  BY <1>2 DEF NowSeen, TypeOK

LEMMA PutWriteTypes ==
    ASSUME TypeOK, Opened, NEW c \in Child, PutWrite(c)
    PROVE  TypeOK' /\ Opened'
<1> DEFINE new == [key |-> key[c], value |-> value[c]]
<1>1. new \in Pair
  BY DEF PutWrite, Opened, Using, Writing, Pair
<1>2. pairs' \in Seq(Pair)
  BY <1>1, AppendProperties DEF PutWrite, TypeOK
<1>3. seen' \in [Child -> SUBSET Answer]
  BY <1>2, NowSeenType DEF PutWrite
<1>4. files' \in Seq(Seq(Line)) /\ Len(files') = Len(files)
  <2>1. fp[c] \in 1..Len(files) /\ files[fp[c]] \in Seq(Line)
    BY FilesType DEF PutWrite, TypeOK, Opened, Using, Writing
  <2>2. WithNewLine(files[fp[c]], new) \in Seq(Line)
    BY <1>1, <2>1, AppendProperties DEF WithNewLine, Line
  <2> QED
    BY <2>1, <2>2, ChangedFile DEF PutWrite
<1> QED
  BY <1>2, <1>3, <1>4, FilesType
  DEF PutWrite, TypeOK, Opened, Using, Writing, Copying, command, opened, copy,
      names, system

LEMMA GetOpenTypes ==
    ASSUME TypeOK, Opened, NEW c \in Child, NEW k \in Key, GetOpen(c, k)
    PROVE  TypeOK' /\ Opened'
<1>1. Lookup(pairs, k) \in Answer
  BY SeqMonotonic, LookupType DEF TypeOK, Line
<1> QED
  BY <1>1, ProcAssumption
  DEF GetOpen, Command, TypeOK, Opened, Using, Writing, Copying, copy

LEMMA GetReplyTypes ==
    ASSUME TypeOK, Opened, NEW c \in Child, GetReply(c)
    PROVE  TypeOK' /\ Opened'
<1>1. fp[c] \in 1..Len(files) /\ files[fp[c]] \in Seq(Line)
  BY FilesType DEF GetReply, TypeOK, Opened, Using
<1>2. Found(files[fp[c]], key[c]) \in Answer /\ Value \subseteq Answer
  BY <1>1, LookupType DEF Found, Answer
<1>3. reply' \in [Child -> Answer]
  BY <1>2 DEF GetReply, TypeOK
<1> QED
  BY <1>3
  DEF GetReply, TypeOK, Opened, Using, Writing, Copying, command, opened, copy,
      names, system, history

LEMMA DelOpenTypes ==
    ASSUME TypeOK, Opened, NEW c \in Child, NEW k \in Key, DelOpen(c, k)
    PROVE  TypeOK' /\ Opened'
<1>1. <<>> \in Seq(Line)
  OBVIOUS
<1> QED
  BY <1>1, ProcAssumption
  DEF DelOpen, Command, TypeOK, Opened, Using, Writing, Copying, Others

LEMMA DelOpenTempTypes ==
    ASSUME TypeOK, Opened, NEW c \in Child, DelOpenTemp(c)
    PROVE  TypeOK' /\ Opened'
<1>1. /\ files' \in Seq(Seq(Line)) /\ Len(files) \in Nat /\ Len(files') \in Nat
      /\ Len(files') >= Len(files)
      /\ temp' \in 1..Len(files')
  <2>1. Len(files) \in Nat /\ <<>> \in Seq(Line)
    BY FilesType
  <2>2. CASE temp = 0
    BY <2>1, <2>2, NewFile DEF DelOpenTemp
  <2>3. CASE temp # 0
    <3>1. temp \in 1..Len(files)
      BY <2>1, <2>3 DEF TypeOK
    <3>2. files' = [files EXCEPT ![temp] = <<>>] /\ temp' = temp
      BY <2>3 DEF DelOpenTemp
    <3>3. files' \in Seq(Seq(Line)) /\ Len(files') = Len(files)
      BY <2>1, <3>1, <3>2, ChangedFile
    <3> QED
      BY <2>1, <3>1, <3>2, <3>3
  <2> QED
    BY <2>2, <2>3
<1>2. /\ pc' = [pc EXCEPT ![c] = "del_copying"]
      /\ tfp' = [tfp EXCEPT ![c] = temp']
      /\ UNCHANGED <<key, value, fp, lines, pos, reply, database, procs, issued,
                     byes, pairs, seen, raced, deleted>>
  BY DEF DelOpenTemp, command, copy, system, history
<1>3. fp' \in [Child -> 0..Len(files')] /\ tfp' \in [Child -> 0..Len(files')]
  <2>1. fp \in [Child -> 0..Len(files)] /\ tfp \in [Child -> 0..Len(files)]
    BY DEF TypeOK
  <2>2. \A n \in 0..Len(files) : n \in 0..Len(files')
    BY <1>1
  <2>3. \A n \in 1..Len(files') : n \in 0..Len(files')
    BY <1>1
  <2>4. \A d \in Child : fp'[d] \in 0..Len(files') /\ tfp'[d] \in 0..Len(files')
    BY <1>1, <1>2, <2>1, <2>2, <2>3
  <2> QED
    BY <1>2, <2>1, <2>4
<1>4. pc' \in [Child -> Writing \cup
          {"connecting", "recv", "get_opened", "unanswered", "forking",
           "refused", "gone", "no_file", "bad_line", "bad_copy", "no_temp"}]
  BY <1>2 DEF TypeOK, Writing, Copying
<1>5. database' \in 0..Len(files') /\ temp' \in 0..Len(files')
  BY <1>1, <1>2 DEF TypeOK
<1>6. TypeOK'
  BY <1>1, <1>2, <1>3, <1>4, <1>5 DEF TypeOK
<1>7. pc[c] = "del_opened" /\ DOMAIN pc = Child /\ DOMAIN tfp = Child
  BY DEF DelOpenTemp, TypeOK
<1>8. Opened'
  BY <1>1, <1>2, <1>7 DEF Opened, Using, Writing, Copying
<1> QED
  BY <1>6, <1>8

(* What is flushed to temp.txt are lines. *)
LEMMA FlushType ==
    ASSUME TypeOK, NEW c \in Child, tfp[c] # 0, NEW kept \in Seq(Line), Flush(c, kept)
    PROVE  files' \in Seq(Seq(Line)) /\ Len(files') = Len(files)
<1>1. tfp[c] \in 1..Len(files) /\ files[tfp[c]] \in Seq(Line)
  BY FilesType DEF TypeOK
<1>2. PICK s \in Overwritten(files[tfp[c]], kept) : files' = [files EXCEPT ![tfp[c]] = s]
  BY DEF Flush
<1>3. s \in Seq(Line)
  BY <1>1, <1>2, OverwrittenType
<1> QED
  BY <1>1, <1>2, <1>3, ChangedFile

LEMMA DelReadTypes ==
    ASSUME TypeOK, Opened, NEW c \in Child, DelRead(c)
    PROVE  TypeOK' /\ Opened'
<1> DEFINE s == files[fp[c]]
           rest == SubSeq(s, pos[c] + 1, Len(s))
<1>1. fp[c] \in 1..Len(files) /\ s \in Seq(Line)
  <2>1. fp[c] \in 0..Len(files) /\ fp[c] # 0
    BY DEF DelRead, TypeOK, Opened, Using, Writing, Copying
  <2>2. Len(files) \in Nat /\ \A f \in 1..Len(files) : files[f] \in Seq(Line)
    BY FilesType
  <2> QED
    BY <2>1, <2>2
<1>2. Len(s) \in Nat /\ rest \in Seq(Line)
  <2>1. Len(s) \in Nat /\ pos[c] \in Nat
    BY <1>1, LenProperties DEF TypeOK
  <2>2. \A i \in pos[c] + 1 .. Len(s) : s[i] \in Line
    BY <1>1, <2>1, ElementOfSeq
  <2> QED
    BY <2>1, <2>2, SubSeqProperties
<1>3. /\ \A keys : lines[c] \o Kept(rest, keys) \in Seq(Line)
      /\ \A keys : \A i \in 1..Len(rest) :
            lines[c] \o Kept(SubSeq(rest, 1, i - 1), keys) \in Seq(Line)
  <2>1. /\ \A keys : Kept(rest, keys) \in Seq(Line)
        /\ \A keys : \A i \in 1..Len(rest) :
              Kept(SubSeq(rest, 1, i - 1), keys) \in Seq(Line)
    <3>1. \A i \in 1..Len(rest) : SubSeq(rest, 1, i - 1) \in Seq(Line)
      <4> HIDE DEF rest
      <4> QED
        BY <1>2
    <3> QED
      BY <1>2, <3>1, OtherLinesType DEF Kept
  <2>2. lines[c] \in Seq(Line)
    BY DEF TypeOK
  <2> QED
    BY <2>1, <2>2, ConcatProperties
<1>4. lines' \in [Child -> Seq(Line)] /\ pos' \in [Child -> Nat]
  <2>1. \/ \E keys : /\ lines' = [lines EXCEPT ![c] = lines[c] \o Kept(rest, keys)]
                     /\ pos' = [pos EXCEPT ![c] = Len(s)]
        \/ UNCHANGED <<lines, pos>>
    BY DEF DelRead, copy
  <2>2. lines \in [Child -> Seq(Line)] /\ pos \in [Child -> Nat]
    BY DEF TypeOK
  <2> HIDE DEF s, rest
  <2>3. CASE UNCHANGED <<lines, pos>>
    BY <2>2, <2>3
  <2>4. ASSUME NEW keys,
               lines' = [lines EXCEPT ![c] = lines[c] \o Kept(rest, keys)],
               pos' = [pos EXCEPT ![c] = Len(s)]
        PROVE  lines' \in [Child -> Seq(Line)] /\ pos' \in [Child -> Nat]
    <3>1. lines[c] \o Kept(rest, keys) \in Seq(Line)
      BY <1>3
    <3> QED
      BY <1>2, <2>2, <2>4, <3>1
  <2> QED
    BY <2>1, <2>3, <2>4
<1>5. files' \in Seq(Seq(Line)) /\ Len(files') = Len(files)
  <2>1. CASE UNCHANGED files
    BY <2>1 DEF TypeOK
  <2>2. ASSUME NEW keys, NEW i \in 1..Len(rest),
               Flush(c, lines[c] \o Kept(SubSeq(rest, 1, i - 1), keys))
        PROVE  files' \in Seq(Seq(Line)) /\ Len(files') = Len(files)
    <3>1. tfp[c] # 0
      BY DEF DelRead, Opened, Copying
    <3>2. lines[c] \o Kept(SubSeq(rest, 1, i - 1), keys) \in Seq(Line)
      BY <1>3
    <3> QED
      BY <2>2, <3>1, <3>2, FlushType
  <2> QED
    BY <2>1, <2>2 DEF DelRead
<1>6. /\ pc[c] = "del_copying"
      /\ pc' = pc \/ pc' = [pc EXCEPT ![c] = "bad_copy"]
      /\ UNCHANGED <<key, value, fp, tfp, reply, database, temp, procs, issued, byes,
                     pairs, seen, raced, deleted>>
  BY DEF DelRead, command, opened, names, system, history
<1> QED
  BY <1>4, <1>5, <1>6 DEF TypeOK, Opened, Using, Writing, Copying

LEMMA DelEndOfFileTypes ==
    ASSUME TypeOK, Opened, NEW c \in Child, DelEndOfFile(c)
    PROVE  TypeOK' /\ Opened'
  BY DEF DelEndOfFile, TypeOK, Opened, Using, Writing, Copying, command, opened,
         copy, names, system, history

LEMMA DelCloseTypes ==
    ASSUME TypeOK, Opened, NEW c \in Child, DelClose(c)
    PROVE  TypeOK' /\ Opened'
<1>1. files' \in Seq(Seq(Line)) /\ Len(files') = Len(files)
  <2>1. tfp[c] # 0 /\ lines[c] \in Seq(Line)
    BY DEF DelClose, TypeOK, Opened, Copying
  <2> QED
    BY <2>1, FlushType DEF DelClose
<1> QED
  BY <1>1
  DEF DelClose, TypeOK, Opened, Using, Writing, Copying, command, opened, copy,
      names, system, history

LEMMA DelRenameTypes ==
    ASSUME TypeOK, Opened, NEW c \in Child, DelRename(c)
    PROVE  TypeOK' /\ Opened'
<1>1. CASE temp # 0
  <2>1. pairs' \in Seq(Pair)
    BY <1>1, OtherLinesType DEF DelRename, Without, TypeOK
  <2>2. seen' \in [Child -> SUBSET Answer]
    BY <1>1, <2>1, NowSeenType DEF DelRename
  <2>3. /\ database' = temp /\ temp' = 0
        /\ pc' = [pc EXCEPT ![c] = "recv"]
        /\ UNCHANGED <<key, value, fp, tfp, lines, pos, reply, files, procs,
                       issued, byes, raced, deleted>>
    BY <1>1
    DEF DelRename, command, opened, copy, system, TempAfterRename
  <2>5. TypeOK'
    <3>1. /\ pc' \in [Child -> Writing \cup
                {"connecting", "recv", "get_opened", "unanswered", "forking",
                 "refused", "gone", "no_file", "bad_line", "bad_copy", "no_temp"}]
          /\ database' \in 0..Len(files') /\ temp' \in 0..Len(files')
      BY <2>3, FilesType DEF TypeOK
    <3>2. /\ fp' \in [Child -> 0..Len(files')] /\ tfp' \in [Child -> 0..Len(files')]
          /\ files' \in Seq(Seq(Line))
      BY <2>3 DEF TypeOK
    <3> QED
      BY <2>1, <2>2, <2>3, <3>1, <3>2 DEF TypeOK
  <2>4. Opened'
    BY <1>1
    DEF DelRename, TypeOK, Opened, Using, Writing, Copying, command, opened
  <2> QED
    BY <2>4, <2>5
<1>2. CASE temp = 0
  BY <1>2
  DEF DelRename, TypeOK, Opened, Using, Writing, Copying, command, opened,
      copy, system, names
<1> QED
  BY <1>1, <1>2

LEMMA ChildOnlyTypes ==
    ASSUME TypeOK, Opened, NEW c \in Child,
           \/ UnknownCommand(c) \/ Crash(c) \/ Bye(c) \/ ForkAgain(c)
    PROVE  TypeOK' /\ Opened'
<1> USE DEF ChildOnly, TypeOK, Opened, Using, Writing, Copying, command,
            opened, copy, names, history
<1>1. CASE UnknownCommand(c)
  BY <1>1 DEF UnknownCommand
<1>2. CASE Crash(c)
  BY <1>2 DEF Crash, AfterCrash
<1>3. CASE Bye(c)
  BY <1>3 DEF Bye
<1>4. CASE ForkAgain(c)
  BY <1>4, ProcAssumption DEF ForkAgain
<1> QED
  BY <1>1, <1>2, <1>3, <1>4

LEMMA InitTypes ==
    Init => TypeOK /\ Opened
<1> SUFFICES ASSUME Init PROVE TypeOK /\ Opened
  OBVIOUS
<1>1. InitialLines \in Seq(Line) /\ <<>> \in Seq(Line) /\ <<>> \in Seq(Pair)
  BY InitialAssumption, SeqMonotonic DEF Line
<1>2. files \in Seq(Seq(Line)) /\ database \in 0..Len(files) /\ Len(files) \in Nat
  <2>1. CASE database = 0 /\ files = <<>>
    BY <2>1
  <2>2. CASE database = 1 /\ files = <<InitialLines>>
    <3>1. <<InitialLines>> \in Seq(Seq(Line)) /\ Len(<<InitialLines>>) = 1
      BY <1>1
    <3> QED
      BY <2>2, <3>1
  <2> QED
    BY <2>1, <2>2 DEF Init
<1>3. pairs \in Seq(Pair)
  BY <1>1, InitialAssumption DEF Init
<1>4. TypeOK
  <2>1. /\ procs \in 1..MAXPROC /\ issued \in 0..MaxCommands
        /\ temp \in 0..Len(files)
        /\ fp \in [Child -> 0..Len(files)] /\ tfp \in [Child -> 0..Len(files)]
    BY <1>2, ProcAssumption DEF Init
  <2>2. /\ reply \in [Child -> Answer] /\ seen \in [Child -> SUBSET Answer]
        /\ lines \in [Child -> Seq(Line)] /\ pos \in [Child -> Nat]
    BY <1>1 DEF Init, Answer
  <2> QED
    BY <1>2, <1>3, <2>1, <2>2 DEF Init, TypeOK
<1>5. Opened
  BY DEF Init, Opened, Using, Writing, Copying
<1> QED
  BY <1>4, <1>5

LEMMA StepTypes ==
    TypeOK /\ Opened /\ [Next]_vars => TypeOK' /\ Opened'
<1> SUFFICES ASSUME TypeOK, Opened, [Next]_vars PROVE TypeOK' /\ Opened'
  OBVIOUS
<1>1. ASSUME NEW c \in Child, ChildStep(c) PROVE TypeOK' /\ Opened'
  BY <1>1, AcceptTypes, PutOpenTypes, PutWriteTypes, GetOpenTypes,
     GetReplyTypes, DelOpenTypes, DelOpenTempTypes, DelReadTypes,
     DelEndOfFileTypes, DelCloseTypes, DelRenameTypes, ChildOnlyTypes
  DEF ChildStep
<1>2. CASE UNCHANGED vars
  BY <1>2
  DEF vars, command, opened, copy, names, system, history, TypeOK, Opened
<1> QED
  BY <1>1, <1>2 DEF Next

(* Whatever the children do at the same time, the files, the positions in  *)
(* them and the processes stay within their bounds (server_key.c).         *)
THEOREM TypeCorrect == Spec => []TypeOK
<1>1. Spec => [](TypeOK /\ Opened)
  BY InitTypes, StepTypes, PTL DEF Spec
<1> QED
  BY <1>1, PTL

LEMMA AlwaysOpened == Spec => []Opened
<1>1. Spec => [](TypeOK /\ Opened)
  BY InitTypes, StepTypes, PTL DEF Spec
<1> QED
  BY <1>1, PTL

-----------------------------------------------------------------------------
(* The file named temp.txt is made under a number that no child uses, and  *)
(* a child opens what is named database.txt.                               *)
LEMMA StepTemp ==
    ASSUME TypeOK, Opened, TempIsPrivate, NEW c \in Child, ChildStep(c)
    PROVE  TempIsPrivate'
<1> USE DEF TempIsPrivate
<1>1. /\ DOMAIN pc = Child /\ DOMAIN fp = Child
      /\ Len(files) \in Nat /\ database \in 0..Len(files) /\ temp \in 0..Len(files)
      /\ \A d \in Child : fp[d] \in 0..Len(files)
  BY FilesType DEF TypeOK
<1>2. CASE Accept(c)
  BY <1>1, <1>2 DEF Accept, Writing, Copying, opened, names
<1>3. CASE \E k \in Key, v \in Value : PutOpen(c, k, v)
  BY <1>1, <1>3 DEF PutOpen, Command, Writing
<1>4. CASE PutWrite(c)
  BY <1>1, <1>4 DEF PutWrite, Writing, Copying, opened, names
<1>5. CASE \E k \in Key : GetOpen(c, k)
  BY <1>1, <1>5 DEF GetOpen, Command, Writing, Copying
<1>6. CASE GetReply(c)
  BY <1>1, <1>6 DEF GetReply, Writing, Copying, opened, names
<1>7. CASE \E k \in Key : DelOpen(c, k)
  BY <1>1, <1>7 DEF DelOpen, Command, Writing, Copying
<1>8. CASE DelOpenTemp(c)
  BY <1>1, <1>8 DEF DelOpenTemp, Writing, Copying
<1>9. CASE DelRead(c)
  BY <1>1, <1>9 DEF DelRead, Writing, Copying, opened, names
<1>10. CASE DelEndOfFile(c)
  BY <1>1, <1>10 DEF DelEndOfFile, Writing, Copying, opened, names
<1>11. CASE DelClose(c)
  BY <1>1, <1>11 DEF DelClose, Writing, Copying, opened, names
<1>12. CASE DelRename(c)
  BY <1>1, <1>12 DEF DelRename, Writing, Copying, opened, names, TempAfterRename
<1>13. CASE UnknownCommand(c) \/ Crash(c) \/ Bye(c) \/ ForkAgain(c)
  BY <1>1, <1>13
  DEF UnknownCommand, Crash, AfterCrash, Bye, ForkAgain, ChildOnly, Writing,
      Copying, opened, names
<1> QED
  BY <1>2, <1>3, <1>4, <1>5, <1>6, <1>7, <1>8, <1>9, <1>10, <1>11, <1>12, <1>13
  DEF ChildStep

(* Whatever the commands that overlap, fopen(TEMP_FILE, "w") never empties *)
(* a file that another child reads or appends to (server_key.c:210,236).   *)
THEOREM AlwaysTempIsPrivate == Spec => []TempIsPrivate
<1>1. Init => TempIsPrivate
  BY DEF Init, TempIsPrivate
<1>2. TypeOK /\ Opened /\ TempIsPrivate /\ [Next]_vars => TempIsPrivate'
  <2>1. CASE UNCHANGED vars
    BY <2>1 DEF vars, opened, names, TempIsPrivate
  <2> QED
    BY <2>1, StepTemp DEF Next
<1> QED
  BY <1>1, <1>2, TypeCorrect, AlwaysOpened, PTL DEF Spec

-----------------------------------------------------------------------------
(* Who is served: a client that is accepted is, the others stay as they    *)
(* are, and only bye leads to the loop that makes processes.               *)
LEMMA ServedByStep ==
    ASSUME TypeOK, NEW c \in Child, ChildStep(c), ~Accept(c)
    PROVE  /\ pc[c] \notin {"connecting", "refused"}
           /\ pc'[c] \notin {"connecting", "refused"}
           /\ \A d \in Child \ {c} : pc'[d] = pc[d]
           /\ byes \subseteq byes'
           /\ pc'[c] = "forking" => pc[c] = "forking" \/ c \in byes'
           /\ pc[c] # "forking" => procs' = procs
<1>1. DOMAIN pc = Child
  BY DEF TypeOK
<1>3. CASE \E k \in Key, v \in Value : PutOpen(c, k, v)
  BY <1>1, <1>3 DEF PutOpen, Command
<1>4. CASE PutWrite(c)
  BY <1>1, <1>4 DEF PutWrite, system
<1>5. CASE \E k \in Key : GetOpen(c, k)
  BY <1>1, <1>5 DEF GetOpen, Command
<1>6. CASE GetReply(c)
  BY <1>1, <1>6 DEF GetReply, system
<1>7. CASE \E k \in Key : DelOpen(c, k)
  BY <1>1, <1>7 DEF DelOpen, Command
<1>8. CASE DelOpenTemp(c)
  BY <1>1, <1>8 DEF DelOpenTemp, system
<1>9. CASE DelRead(c)
  BY <1>1, <1>9 DEF DelRead, system
<1>10. CASE DelEndOfFile(c)
  BY <1>1, <1>10 DEF DelEndOfFile, system
<1>11. CASE DelClose(c)
  BY <1>1, <1>11 DEF DelClose, system
<1>12. CASE DelRename(c)
  BY <1>1, <1>12 DEF DelRename, system
<1>13. CASE UnknownCommand(c) \/ Crash(c) \/ Bye(c) \/ ForkAgain(c)
  BY <1>1, <1>13
  DEF UnknownCommand, Crash, AfterCrash, Bye, ForkAgain, ChildOnly
<1> QED
  BY <1>3, <1>4, <1>5, <1>6, <1>7, <1>8, <1>9, <1>10, <1>11, <1>12, <1>13
  DEF ChildStep

LEMMA ServedFinite ==
    /\ IsFiniteSet(Served) /\ Cardinality(Served) \in Nat
    /\ Cardinality(Child) \in Nat
    /\ \A c \in Child \ Served : Cardinality(Served) + 1 <= Cardinality(Child)
<1>1. Served \in SUBSET Child
  BY DEF Served
<1>2. IsFiniteSet(Served) /\ Cardinality(Served) \in Nat /\ Cardinality(Child) \in Nat
  BY <1>1, ChildAssumption, FS_Subset, FS_CardinalityType
<1>3. ASSUME NEW c \in Child \ Served
      PROVE  Cardinality(Served) + 1 <= Cardinality(Child)
  <2>1. Cardinality(Served \cup {c}) = Cardinality(Served) + 1
    BY <1>2, FS_AddElement
  <2>2. Served \cup {c} \in SUBSET Child
    BY <1>1
  <2> QED
    BY <2>1, <2>2, ChildAssumption, FS_Subset
<1> QED
  BY <1>2, <1>3

LEMMA StepProcesses ==
    ASSUME TypeOK, Processes, NEW c \in Child, ChildStep(c)
    PROVE  Processes'
<1>1. CASE Accept(c)
  <2>1. /\ pc[c] = "connecting" /\ byes' = byes /\ c \notin Served
        /\ DOMAIN pc = Child /\ procs \in Nat /\ MAXPROC \in Nat
    BY <1>1, ProcAssumption DEF Accept, TypeOK, Served
  <2>2. CASE procs < MAXPROC
    <3>1. pc' = [pc EXCEPT ![c] = "recv"] /\ procs' = procs + 1
      BY <1>1, <2>2 DEF Accept
    <3>2. Served' = Served \cup {c}
      BY <2>1, <3>1 DEF Served
    <3>3. Cardinality(Served') = Cardinality(Served) + 1
      BY <2>1, <3>2, ServedFinite, FS_AddElement
    <3> QED
      BY <2>1, <3>1, <3>3, ServedFinite DEF Processes
  <2>3. CASE ~(procs < MAXPROC)
    <3>1. pc' = [pc EXCEPT ![c] = "refused"] /\ procs' = procs
      BY <1>1, <2>3 DEF Accept
    <3>2. Served' = Served
      BY <2>1, <3>1 DEF Served
    <3>3. byes = {} => ~(MAXPROC > Cardinality(Child))
      BY <2>1, <2>3, ServedFinite DEF Processes
    <3> QED
      BY <2>1, <3>1, <3>2, <3>3 DEF Processes
  <2> QED
    BY <2>2, <2>3
<1>2. CASE ~Accept(c)
  <2>1. Served' = Served
    BY <1>2, ServedByStep DEF Served
  <2> QED
    BY <1>2, <2>1, ServedByStep DEF Processes
<1> QED
  BY <1>1, <1>2

(* As long as no client has said bye, the server turns none away for want  *)
(* of a process if there is one for every client and for itself: neither a *)
(* crash nor the end of a connection makes processes                       *)
(* (server_key.c:80,263).                                                  *)
THEOREM AlwaysRefusedOnlyAfterBye == Spec => []RefusedOnlyAfterBye
<1>1. Init => Processes
  <2> SUFFICES ASSUME Init PROVE Processes
    OBVIOUS
  <2>1. Served = {}
    BY DEF Init, Served
  <2> QED
    BY <2>1, FS_EmptySet DEF Init, Processes
<1>2. TypeOK /\ Processes /\ [Next]_vars => Processes'
  <2>1. CASE UNCHANGED vars
    BY <2>1 DEF vars, system, Processes, Served
  <2> QED
    BY <2>1, StepProcesses DEF Next
<1>3. Processes => RefusedOnlyAfterBye
  BY DEF Processes, RefusedOnlyAfterBye
<1> QED
  BY <1>1, <1>2, <1>3, TypeCorrect, PTL DEF Spec

-----------------------------------------------------------------------------
(* A step after which a child uses no file, and that changes none, leaves  *)
(* what the others do as it is.                                            *)
LEMMA IdleSerial ==
    ASSUME TypeOK, SerialUnlessRaced, NEW c \in Child,
           UNCHANGED <<key, fp, tfp, lines, pos, names, files, history>>,
           \A d \in Child \ {c} : pc'[d] = pc[d],
           pc'[c] \notin Using
    PROVE  SerialUnlessRaced'
<1> SUFFICES ASSUME Serial PROVE Serial'
  BY DEF SerialUnlessRaced, history
<1>1. Content' = pairs'
  BY DEF Serial, Content, names, history
<1>2. ASSUME NEW d \in Child \ {c}
      PROVE  /\ pc'[d] = "put_opened" => (fp[d] = database)'
             /\ pc'[d] \in Copying => DelAlone(d)'
             /\ pc'[d] = "get_opened" => GetCurrent(d)'
  BY <1>2 DEF Serial, DelAlone, GetCurrent, Using, Writing, names, history
<1>3. pc'[c] \notin Copying /\ pc'[c] # "put_opened" /\ pc'[c] # "get_opened"
  BY DEF Using, Writing
<1> QED
  BY <1>1, <1>2, <1>3 DEF Serial

(* What the commands find that open a file or append to one: a del that is *)
(* not alone has set raced.                                                *)
LEMMA NobodyCopies ==
    ASSUME Serial, NEW c \in Child, pc[c] \in Writing, NEW d \in Child \ {c}
    PROVE  pc[d] \notin Copying
  BY DEF Serial, DelAlone

LEMMA PutOpenSerial ==
    ASSUME TypeOK, Opened, SerialUnlessRaced, NEW c \in Child,
           NEW k \in Key, NEW v \in Value, PutOpen(c, k, v)
    PROVE  SerialUnlessRaced'
<1> SUFFICES ASSUME Serial, \A d \in Child \ {c} : pc[d] \notin Copying
             PROVE  Serial'
  BY DEF SerialUnlessRaced, PutOpen, Others
<1>1. /\ DOMAIN pc = Child /\ DOMAIN fp = Child /\ DOMAIN key = Child
      /\ Len(files) \in Nat /\ database \in 0..Len(files)
      /\ \A d \in Child : fp[d] \in 0..Len(files)
  BY FilesType DEF TypeOK
<1>2. /\ pc' = [pc EXCEPT ![c] = "put_opened"]
      /\ fp' = [fp EXCEPT ![c] = database'] /\ key' = [key EXCEPT ![c] = k]
      /\ UNCHANGED <<pairs, seen>>
  BY DEF PutOpen, Command
<1>3. /\ \A f \in 1..Len(files) : files'[f] = files[f]
      /\ database # 0 => database' = database
      /\ database = 0 => database' = Len(files) + 1 /\ files'[database'] = <<>>
  BY NewFile DEF PutOpen
<1>4. Content' = pairs'
  BY <1>1, <1>2, <1>3 DEF Serial, Content
<1>5. ASSUME NEW d \in Child
      PROVE  /\ pc'[d] = "put_opened" => (fp[d] = database)'
             /\ pc'[d] \notin Copying
             /\ pc'[d] = "get_opened" => GetCurrent(d)'
  BY <1>1, <1>2, <1>3
  DEF Serial, Opened, GetCurrent, Using, Writing, Copying
<1> QED
  BY <1>4, <1>5 DEF Serial

LEMMA PutWriteSerial ==
    ASSUME TypeOK, Opened, SerialUnlessRaced, NEW c \in Child, PutWrite(c)
    PROVE  SerialUnlessRaced'
<1> SUFFICES ASSUME Serial PROVE Serial'
  BY DEF SerialUnlessRaced, PutWrite
<1> DEFINE new == [key |-> key[c], value |-> value[c]]
<1>1. /\ pc[c] = "put_opened" /\ pc' = [pc EXCEPT ![c] = "recv"]
      /\ files' = [files EXCEPT ![fp[c]] = Append(files[fp[c]], new)]
      /\ pairs' = Append(pairs, new) /\ NowSeen
      /\ UNCHANGED <<key, fp, database>>
  BY DEF PutWrite, WithNewLine, command, opened, names
<1>2. /\ DOMAIN pc = Child /\ database \in 1..Len(files) /\ fp[c] = database
      /\ pairs \in Seq(Pair) /\ new \in Pair /\ files[database] = pairs
  BY <1>1 DEF TypeOK, Opened, Serial, Content, Using, Writing, Pair
<1>3. pairs' \in Seq(Pair) /\ pairs' \in Seq(Line)
  BY <1>1, <1>2, AppendProperties, SeqMonotonic DEF Line
<1>4. \A f \in 1..Len(files) : files'[f] = IF f = database THEN pairs' ELSE files[f]
  BY <1>1, <1>2, <1>3, ChangedFile
<1>5. Content' = pairs'
  BY <1>1, <1>2, <1>4, FilesType DEF Content
<1>6. ASSUME NEW d \in Child
      PROVE  /\ pc'[d] = "put_opened" => (fp[d] = database)'
             /\ pc'[d] \notin Copying
  BY <1>1, <1>2, NobodyCopies DEF Serial, Writing, Copying
<1>7. ASSUME NEW d \in Child, pc'[d] = "get_opened" PROVE GetCurrent(d)'
  <2>1. /\ pc[d] = "get_opened" /\ GetCurrent(d) /\ fp[d] \in 1..Len(files)
    <3>1. pc[d] = "get_opened"
      BY <1>1, <1>2, <1>7
    <3>2. fp[d] \in 1..Len(files)
      BY <3>1, FilesType DEF Opened, TypeOK, Using
    <3> QED
      BY <3>1, <3>2 DEF Serial
  <2>2. seen'[d] = seen[d] \cup {Lookup(pairs', key[d])}
    BY <1>1, <2>1 DEF NowSeen
  <2> QED
    BY <1>1, <1>3, <1>4, <2>1, <2>2 DEF GetCurrent
<1> QED
  BY <1>5, <1>6, <1>7 DEF Serial

LEMMA GetOpenSerial ==
    ASSUME TypeOK, Opened, SerialUnlessRaced, NEW c \in Child,
           NEW k \in Key, GetOpen(c, k)
    PROVE  SerialUnlessRaced'
<1> SUFFICES ASSUME Serial PROVE Serial'
  BY DEF SerialUnlessRaced, GetOpen
<1>1. /\ pc[c] = "recv"
      /\ pc' = [pc EXCEPT ![c] = IF database = 0 THEN "no_file" ELSE "get_opened"]
      /\ fp' = [fp EXCEPT ![c] = database] /\ key' = [key EXCEPT ![c] = k]
      /\ seen' = [seen EXCEPT ![c] = {Lookup(pairs, k)}]
      /\ UNCHANGED <<tfp, lines, pos, database, temp, files, pairs>>
  BY DEF GetOpen, Command, copy
<1>2. /\ DOMAIN pc = Child /\ DOMAIN fp = Child /\ DOMAIN key = Child
      /\ DOMAIN seen = Child /\ pairs \in Seq(Pair)
  BY DEF TypeOK
<1>3. Content' = pairs'
  BY <1>1 DEF Serial, Content
<1>4. ASSUME NEW d \in Child \ {c}
      PROVE  /\ pc'[d] = "put_opened" => (fp[d] = database)'
             /\ pc'[d] \in Copying => DelAlone(d)'
             /\ pc'[d] = "get_opened" => GetCurrent(d)'
  BY <1>1, <1>2 DEF Serial, DelAlone, GetCurrent, Writing, Copying
<1>5. /\ pc'[c] # "put_opened" /\ pc'[c] \notin Copying
      /\ pc'[c] = "get_opened" => GetCurrent(c)'
  BY <1>1, <1>2 DEF Serial, Content, GetCurrent, Copying
<1> QED
  BY <1>3, <1>4, <1>5 DEF Serial

LEMMA DelOpenSerial ==
    ASSUME TypeOK, Opened, SerialUnlessRaced, NEW c \in Child,
           NEW k \in Key, DelOpen(c, k)
    PROVE  SerialUnlessRaced'
<1> SUFFICES ASSUME Serial,
                    database # 0 => \A d \in Child \ {c} : pc[d] \notin Writing
             PROVE  Serial'
  BY DEF SerialUnlessRaced, DelOpen, Others
<1>1. /\ pc[c] = "recv"
      /\ pc' = [pc EXCEPT ![c] = IF database = 0 THEN "no_file" ELSE "del_opened"]
      /\ fp' = [fp EXCEPT ![c] = database] /\ key' = [key EXCEPT ![c] = k]
      /\ lines' = [lines EXCEPT ![c] = <<>>] /\ pos' = [pos EXCEPT ![c] = 0]
      /\ UNCHANGED <<tfp, database, temp, files, pairs, seen>>
  BY DEF DelOpen, Command
<1>2. /\ DOMAIN pc = Child /\ DOMAIN fp = Child /\ DOMAIN key = Child
      /\ DOMAIN lines = Child /\ DOMAIN pos = Child
  BY DEF TypeOK
<1>3. Content' = pairs'
  BY <1>1 DEF Serial, Content
<1>4. ASSUME NEW d \in Child \ {c}
      PROVE  /\ pc'[d] = "put_opened" => (fp[d] = database)'
             /\ pc'[d] \in Copying => DelAlone(d)'
             /\ pc'[d] = "get_opened" => GetCurrent(d)'
  BY <1>1, <1>2 DEF Serial, DelAlone, GetCurrent, Writing, Copying
<1>5. /\ pc'[c] # "put_opened" /\ pc'[c] # "get_opened"
      /\ pc'[c] \in Copying => DelAlone(c)'
  BY <1>1, <1>2 DEF DelAlone, Copying
<1> QED
  BY <1>3, <1>4, <1>5 DEF Serial

(* While one child copies, the others that use files are gets, whose files *)
(* are not temp.txt: a file made or changed under that name is not theirs. *)
LEMMA OthersOnlyGet ==
    ASSUME TypeOK, Opened, Serial, TempIsPrivate, NEW c \in Child,
           pc[c] \in Copying, NEW d \in Child \ {c},
           pc[d] \in Using
    PROVE  /\ pc[d] = "get_opened" /\ GetCurrent(d)
           /\ fp[d] \in 1..Len(files) /\ fp[d] # temp
<1>1. pc[d] = "get_opened"
  BY DEF Serial, DelAlone, Using
<1>2. fp[d] \in 1..Len(files)
  BY FilesType DEF TypeOK, Opened
<1>3. temp # 0 => fp[d] # temp
  BY <1>1 DEF TempIsPrivate
<1> QED
  BY <1>1, <1>2, <1>3, FilesType DEF Serial

LEMMA DelOpenTempSerial ==
    ASSUME TypeOK, Opened, TempIsPrivate, SerialUnlessRaced,
           NEW c \in Child, DelOpenTemp(c)
    PROVE  SerialUnlessRaced'
<1> SUFFICES ASSUME Serial PROVE Serial'
  BY DEF SerialUnlessRaced, DelOpenTemp, history
<1>1. /\ pc[c] = "del_opened" /\ pc' = [pc EXCEPT ![c] = "del_copying"]
      /\ tfp' = [tfp EXCEPT ![c] = temp']
      /\ UNCHANGED <<key, fp, lines, pos, database, pairs, seen>>
  BY DEF DelOpenTemp, command, copy, history
<1>2. /\ DOMAIN pc = Child /\ DOMAIN tfp = Child /\ pc[c] \in Copying
      /\ Len(files) \in Nat /\ database \in 1..Len(files)
      /\ DelAlone(c)
  BY <1>1, FilesType DEF TypeOK, Opened, Serial, DelAlone, Using, Writing, Copying
<1>3. /\ files'[temp'] = <<>> /\ files'[database] = files[database]
      /\ \A f \in 1..Len(files) : f # temp => files'[f] = files[f]
  <2>1. CASE temp = 0
    BY <1>2, <2>1, NewFile DEF DelOpenTemp
  <2>2. CASE temp # 0
    <3>1. temp \in 1..Len(files) /\ <<>> \in Seq(Line) /\ temp # database
      BY <1>2, <2>2 DEF TypeOK, TempIsPrivate
    <3>2. files' = [files EXCEPT ![temp] = <<>>] /\ temp' = temp
      BY <2>2 DEF DelOpenTemp
    <3>3. \A f \in 1..Len(files) : files'[f] = IF f = temp THEN <<>> ELSE files[f]
      BY <3>1, <3>2, ChangedFile
    <3> QED
      BY <1>2, <3>1, <3>2, <3>3
  <2> QED
    BY <2>1, <2>2
<1>4. Content' = pairs'
  BY <1>1, <1>2, <1>3 DEF Serial, Content
<1>5. ASSUME NEW d \in Child \ {c}
      PROVE  pc'[d] \in Using => pc'[d] = "get_opened" /\ GetCurrent(d)'
  BY <1>1, <1>2, <1>3, OthersOnlyGet DEF GetCurrent
<1>6. DelAlone(c)'
  BY <1>1, <1>2, <1>3 DEF DelAlone, Copying, Writing
<1>7. pc'[c] # "put_opened" /\ pc'[c] # "get_opened"
  BY <1>1, <1>2
<1> QED
  BY <1>4, <1>5, <1>6, <1>7 DEF Serial, Using, Writing, Copying

LEMMA DelReadSerial ==
    ASSUME TypeOK, Opened, SerialUnlessRaced, NEW c \in Child, DelRead(c)
    PROVE  SerialUnlessRaced'
<1> DEFINE rest == SubSeq(files[fp[c]], pos[c] + 1, Len(files[fp[c]]))
<1>1. /\ pc[c] = "del_copying" /\ pos[c] < Len(files[fp[c]])
      /\ UNCHANGED <<key, fp, tfp, database, temp, pairs, seen, raced>>
  BY DEF DelRead, command, opened, names, history
<1>2. DOMAIN pc = Child /\ DOMAIN lines = Child /\ DOMAIN pos = Child
  BY DEF TypeOK
<1> SUFFICES ASSUME Serial PROVE Serial'
  BY <1>1 DEF SerialUnlessRaced
<1>3. /\ pc[c] \in Copying /\ DelAlone(c) /\ files[fp[c]] = pairs
      /\ pairs \in Seq(Pair) /\ Len(pairs) \in Nat /\ key[c] \in Key
  BY <1>1, LenProperties
  DEF Serial, Opened, DelAlone, Content, Using, Writing, Copying, TypeOK
<1>4. pos[c] = 0 /\ lines[c] = <<>>
  BY <1>1, <1>3 DEF DelAlone
<1>5. rest = pairs
  BY <1>3, <1>4, SubSeqFull
<1>6. \A i \in 1..Len(rest) : rest[i] # Torn
  <2>1. \A i \in 1..Len(pairs) : pairs[i] \in Pair
    BY <1>3, ElementOfSeq
  <2>2. \A p \in Pair : p # Torn
    BY NoneAssumption DEF Pair, Torn
  <2> HIDE DEF rest
  <2> QED
    BY <1>5, <2>1, <2>2
<1>7. PICK keys \in {{key[c]}, {key[c], None}} :
         /\ lines' = [lines EXCEPT ![c] = lines[c] \o Kept(rest, keys)]
         /\ pos' = [pos EXCEPT ![c] = Len(files[fp[c]])]
         /\ pc' = pc /\ files' = files
  BY <1>6 DEF DelRead
<1>8. Kept(pairs, keys) = Without(pairs, key[c])
  BY <1>3, <1>7, KeptIsWithout
<1>9. lines'[c] = Without(pairs, key[c]) /\ pos'[c] = Len(pairs)
  <2>1. Without(pairs, key[c]) \in Seq(Pair)
    BY <1>3, OtherLinesType DEF Without
  <2>2. lines'[c] = <<>> \o Without(pairs, key[c])
    BY <1>2, <1>4, <1>5, <1>7, <1>8
  <2>3. pos'[c] = Len(pairs)
    BY <1>2, <1>3, <1>7
  <2> QED
    BY <2>1, <2>2, <2>3, ConcatEmptySeq
<1>10. Content' = pairs'
  BY <1>1, <1>7 DEF Serial, Content
<1>11. DelAlone(c)'
  BY <1>1, <1>3, <1>7, <1>9 DEF DelAlone
<1>12. ASSUME NEW d \in Child \ {c}
       PROVE  /\ pc'[d] = "put_opened" => (fp[d] = database)'
              /\ pc'[d] \notin Copying
              /\ pc'[d] = "get_opened" => GetCurrent(d)'
  BY <1>1, <1>3, <1>7 DEF Serial, DelAlone, GetCurrent, Writing
<1> QED
  BY <1>1, <1>7, <1>10, <1>11, <1>12 DEF Serial

LEMMA DelEndOfFileSerial ==
    ASSUME TypeOK, Opened, SerialUnlessRaced, NEW c \in Child, DelEndOfFile(c)
    PROVE  SerialUnlessRaced'
<1> SUFFICES ASSUME Serial PROVE Serial'
  BY DEF SerialUnlessRaced, DelEndOfFile, history
<1>1. /\ pc[c] = "del_copying" /\ pc' = [pc EXCEPT ![c] = "del_copied"]
      /\ pos[c] >= Len(files[fp[c]])
      /\ UNCHANGED <<key, fp, tfp, lines, pos, database, temp, files, pairs, seen>>
  BY DEF DelEndOfFile, command, opened, copy, names, history
<1>2. /\ DOMAIN pc = Child /\ pc[c] \in Copying /\ DelAlone(c)
      /\ files[fp[c]] = pairs /\ Len(pairs) \in Nat
  BY <1>1, LenProperties
  DEF Serial, Opened, DelAlone, Content, Using, Writing, Copying, TypeOK
<1>3. pos[c] = Len(pairs)
  BY <1>1, <1>2 DEF DelAlone
<1>4. Content' = pairs'
  BY <1>1 DEF Serial, Content
<1>5. DelAlone(c)'
  BY <1>1, <1>2, <1>3 DEF DelAlone
<1>6. ASSUME NEW d \in Child \ {c}
      PROVE  /\ pc'[d] = "put_opened" => (fp[d] = database)'
             /\ pc'[d] \notin Copying
             /\ pc'[d] = "get_opened" => GetCurrent(d)'
  BY <1>1, <1>2 DEF Serial, DelAlone, GetCurrent, Writing
<1> QED
  BY <1>1, <1>2, <1>4, <1>5, <1>6 DEF Serial

LEMMA DelCloseSerial ==
    ASSUME TypeOK, Opened, TempIsPrivate, SerialUnlessRaced,
           NEW c \in Child, DelClose(c)
    PROVE  SerialUnlessRaced'
<1> SUFFICES ASSUME Serial PROVE Serial'
  BY DEF SerialUnlessRaced, DelClose, history
<1>1. /\ pc[c] = "del_copied" /\ pc' = [pc EXCEPT ![c] = "del_closed"]
      /\ UNCHANGED <<key, fp, tfp, lines, pos, database, temp, pairs, seen>>
  BY DEF DelClose, command, opened, copy, names, history
<1>2. /\ DOMAIN pc = Child /\ pc[c] \in Copying /\ DelAlone(c)
      /\ tfp[c] = temp /\ temp \in 1..Len(files) /\ files[temp] = <<>>
      /\ database \in 1..Len(files) /\ database # temp
      /\ lines[c] \in Seq(Line) /\ pairs \in Seq(Pair)
  <2>1. /\ DOMAIN pc = Child /\ pc[c] \in Copying /\ pc[c] \in Using
        /\ lines[c] \in Seq(Line) /\ pairs \in Seq(Pair)
    BY <1>1 DEF TypeOK, Using, Writing, Copying
  <2>2. DelAlone(c)
    BY <2>1 DEF Serial
  <2>3. tfp[c] = temp /\ files[temp] = <<>> /\ fp[c] = database
    BY <1>1, <2>2 DEF DelAlone
  <2>4. temp # 0 /\ database # 0
    BY <1>1, <2>1, <2>3 DEF Opened, Copying
  <2>5. temp \in 1..Len(files) /\ database \in 1..Len(files)
    BY <2>4, FilesType DEF TypeOK
  <2> QED
    BY <2>1, <2>2, <2>3, <2>4, <2>5 DEF TempIsPrivate
<1>3. lines[c] = Without(pairs, key[c])
  <2>1. pos[c] = Len(pairs)
    BY <1>1, <1>2 DEF DelAlone
  <2>2. Len(pairs) = 0 => pairs = <<>>
    BY <1>2, EmptySeq
  <2>3. CASE pos[c] = 0 /\ lines[c] = <<>>
    BY <2>1, <2>2, <2>3, NoOtherLines DEF Without
  <2> QED
    BY <1>2, <2>3 DEF DelAlone
<1>4. Overwritten(files[temp], lines[c]) = {lines[c]}
  <2>1. <<>> \in Seq(Line)
    OBVIOUS
  <2> QED
    BY <1>2, <2>1, OverwrittenType
<1>5. files' = [files EXCEPT ![temp] = lines[c]]
  BY <1>2, <1>4 DEF DelClose, Flush
<1>6. \A f \in 1..Len(files) : files'[f] = IF f = temp THEN lines[c] ELSE files[f]
  BY <1>2, <1>5, ChangedFile
<1>7. Content' = pairs'
  BY <1>1, <1>2, <1>6 DEF Serial, Content
<1>8. DelAlone(c)'
  BY <1>1, <1>2, <1>3, <1>6 DEF DelAlone
<1>9. ASSUME NEW d \in Child \ {c}
      PROVE  pc'[d] \in Using => pc'[d] = "get_opened" /\ GetCurrent(d)'
  BY <1>1, <1>2, <1>6, OthersOnlyGet DEF GetCurrent
<1> QED
  BY <1>1, <1>2, <1>7, <1>8, <1>9 DEF Serial, Using, Writing, Copying

LEMMA DelRenameSerial ==
    ASSUME TypeOK, Opened, TempIsPrivate, SerialUnlessRaced,
           NEW c \in Child, DelRename(c)
    PROVE  SerialUnlessRaced'
<1>1. /\ pc[c] = "del_closed" /\ DOMAIN pc = Child
      /\ UNCHANGED <<key, fp, tfp, lines, pos, files, raced, deleted>>
  BY DEF DelRename, command, opened, copy, TypeOK
<1>2. CASE temp = 0
  <2>1. pc' = [pc EXCEPT ![c] = "no_temp"] /\ UNCHANGED names /\ UNCHANGED history
    BY <1>1, <1>2 DEF DelRename, history
  <2> QED
    BY <1>1, <2>1, IdleSerial DEF Using, Writing, Copying
<1>3. CASE temp # 0
  <2> SUFFICES ASSUME Serial PROVE Serial'
    BY <1>1 DEF SerialUnlessRaced
  <2>1. /\ pc' = [pc EXCEPT ![c] = "recv"] /\ database' = temp
        /\ pairs' = Without(pairs, key[c]) /\ NowSeen
    BY <1>3 DEF DelRename
  <2>2. /\ pc[c] \in Copying /\ files[temp] = Without(pairs, key[c])
    BY <1>1 DEF Serial, DelAlone, Copying
  <2>3. Content' = pairs'
    BY <1>1, <1>3, <2>1, <2>2 DEF Content
  <2>4. ASSUME NEW d \in Child \ {c}
        PROVE  pc'[d] \in Using => pc'[d] = "get_opened" /\ GetCurrent(d)'
    BY <1>1, <2>1, <2>2, OthersOnlyGet DEF NowSeen, GetCurrent
  <2>5. pc'[c] \notin Using
    BY <1>1, <2>1 DEF Using, Writing, Copying
  <2> QED
    BY <2>3, <2>4, <2>5 DEF Serial, Using, Writing, Copying
<1> QED
  BY <1>2, <1>3

LEMMA StepSerial ==
    ASSUME TypeOK, Opened, TempIsPrivate, SerialUnlessRaced,
           NEW c \in Child, ChildStep(c)
    PROVE  SerialUnlessRaced'
<1>1. DOMAIN pc = Child
  BY DEF TypeOK
<1>2. CASE Accept(c)
  BY <1>1, <1>2, IdleSerial
  DEF Accept, command, opened, copy, Using, Writing, Copying
<1>3. CASE GetReply(c)
  BY <1>1, <1>3, IdleSerial
  DEF GetReply, command, opened, copy, Using, Writing, Copying
<1>4. CASE UnknownCommand(c) \/ Crash(c) \/ Bye(c) \/ ForkAgain(c)
  BY <1>1, <1>4, IdleSerial
  DEF UnknownCommand, Crash, AfterCrash, Bye, ForkAgain, ChildOnly, command,
      opened, copy, Using, Writing, Copying
<1> QED
  BY <1>2, <1>3, <1>4, PutOpenSerial, PutWriteSerial, GetOpenSerial,
     DelOpenSerial, DelOpenTempSerial, DelReadSerial, DelEndOfFileSerial,
     DelCloseSerial, DelRenameSerial
  DEF ChildStep

LEMMA AlwaysSerialUnlessRaced == Spec => []SerialUnlessRaced
<1>1. Init => SerialUnlessRaced
  BY DEF Init, SerialUnlessRaced, Serial, Content, Copying
<1>2. TypeOK /\ Opened /\ TempIsPrivate /\ SerialUnlessRaced /\ [Next]_vars =>
         SerialUnlessRaced'
  <2> SUFFICES ASSUME TypeOK, Opened, TempIsPrivate, SerialUnlessRaced,
                      [Next]_vars
               PROVE  SerialUnlessRaced'
    OBVIOUS
  <2>1. CASE UNCHANGED vars
    <3> SUFFICES ASSUME Serial PROVE Serial'
      BY <2>1 DEF vars, history, SerialUnlessRaced
    <3>1. UNCHANGED <<pc, key, fp, tfp, lines, pos, database, temp, files,
                      pairs, seen>>
      BY <2>1 DEF vars, command, opened, copy, names, history
    <3>2. \A c \in Child : /\ DelAlone(c) => DelAlone(c)'
                           /\ GetCurrent(c) => GetCurrent(c)'
      BY <3>1 DEF DelAlone, GetCurrent
    <3>3. Content' = pairs'
      BY <3>1 DEF Serial, Content
    <3> QED
      BY <3>1, <3>2, <3>3 DEF Serial
  <2> QED
    BY <2>1, StepSerial DEF Next
<1> QED
  BY <1>1, <1>2, TypeCorrect, AlwaysOpened, AlwaysTempIsPrivate, PTL DEF Spec

(* As long as no del overlaps another put or del, database.txt holds the   *)
(* store that each command changes at once (server_key.c:121-130,203-240). *)
THEOREM AlwaysSerialStore == Spec => []SerialStore
<1>1. SerialUnlessRaced => SerialStore
  BY DEF SerialUnlessRaced, Serial, SerialStore
<1> QED
  BY <1>1, AlwaysSerialUnlessRaced, PTL

(* Then a get answers with a value its key had at some moment since the    *)
(* command came, whatever happens to the name of the file it reads         *)
(* (server_key.c:149-186).                                                 *)
THEOREM AnswersAreCurrent == Spec => AnswersCurrent
<1>1. ASSUME TypeOK, Opened, SerialUnlessRaced, ~raced,
             NEW c \in Child, GetReply(c)
      PROVE  reply'[c] \in seen[c]
  <2>1. GetCurrent(c) /\ DOMAIN reply = Child
    BY <1>1 DEF GetReply, SerialUnlessRaced, Serial, TypeOK
  <2>2. ~TornInFront(files[fp[c]], key[c])
    <3>1. \A i \in 1..Len(files[fp[c]]) : files[fp[c]][i] \in Pair
      BY <2>1, ElementOfSeq DEF GetCurrent
    <3>2. Torn \notin Pair
      BY NoneAssumption DEF Torn, Pair
    <3> QED
      BY <3>1, <3>2 DEF TornInFront
  <2>3. reply' = [reply EXCEPT ![c] = Lookup(files[fp[c]], key[c])]
    BY <1>1, <2>2 DEF GetReply, Found
  <2> QED
    BY <2>1, <2>3 DEF GetCurrent
<1>2. TypeOK /\ Opened /\ SerialUnlessRaced =>
         [\A c \in Child : ~raced /\ GetReply(c) => reply'[c] \in seen[c]]_vars
  BY <1>1
<1> QED
  BY <1>2, TypeCorrect, AlwaysOpened, AlwaysSerialUnlessRaced, PTL
  DEF AnswersCurrent, Spec

-----------------------------------------------------------------------------
(* THE CHAT AND THE ECHO.                                                  *)

(* No line is longer than the buffer of an echo child, and a terminator    *)
(* stays behind it.                                                        *)
LinesFit ==
    /\ parentMsg[BUFFERSIZE] = Zero
    /\ \A c \in Clients : msg[c][BUFFERSIZE] = Zero
    /\ program = "echo" =>
          \A c \in Clients : \A i \in 1..Len(toServer[c]) :
              Len(toServer[c][i]) \in 1 .. BUFFERSIZE - 1

(* A client is accepted once: those in the backlog have no child yet.      *)
BacklogNew ==
    /\ \A i \in 1..Len(backlog) : child[backlog[i]] = "none"
    /\ \A i, j \in 1..Len(backlog) : backlog[i] = backlog[j] => i = j
    /\ \A c \in Clients : user[c] = "absent" =>
          child[c] = "none" /\ \A i \in 1..Len(backlog) : backlog[i] # c

(* A client and its child have one line, one prompt or one answer between  *)
(* them, and a client that is connected has not ended.                     *)
OneUnderWay(c) ==
    /\ connection[c] = "open" <=> user[c] # "ended"
    /\ user[c] \in {"absent", "typing"} => toServer[c] = <<>>
    /\ child[c] = "refused" => toServer[c] = <<>>
    /\ Len(toServer[c]) <= 1
    /\ child[c] = "prompting" =>
          toServer[c] = <<>> /\ user[c] \in {"waiting", "ended"}
    /\ toClient[c] # <<>> =>
          /\ toServer[c] = <<>> /\ child[c] # "prompting"
          /\ user[c] = "waiting" /\ Len(toClient[c]) = 1

(* So it is with every client.                                             *)
TakeTurns == \A c \in Clients : OneUnderWay(c)

(* A byte of the parent's memory, or of a line of c. *)
Old(c, b) ==
    b \in {Zero, Unknown} \/ \E k \in 1..asked[c] : b = TypedBy("client", c, k)

(* A child's buffer holds lines of its client only, the older the farther  *)
(* behind.                                                                 *)
BufferKeepsOlder(c) ==
    /\ \A i \in 1..BUFFERSIZE : Old(c, msg[c][i])
    /\ \A i \in 1 .. BUFFERSIZE - 1 : msg[c][i].n >= msg[c][i + 1].n

(* What an echo child is going to receive is the last line of its client.  *)
LineIsLast(c) ==
    /\ child[c] # "prompting"
    /\ \A i \in 1..Len(toServer[c]) :
          /\ asked[c] > 0
          /\ \E len \in 1 .. BUFFERSIZE - 1 :
                toServer[c][i] = TypedLine("client", c, asked[c], len)
          /\ user[c] = "waiting" => toServer[c][i] = lastMsg[c]

(* The echo under way to c is its last line, and older ones.               *)
EchoRight(c) == toClient[c] # <<>> => KeepsOlder(c, Head(toClient[c]))

(* All of this, of every client.                                           *)
Echoes ==
    /\ parentMsg \in [1..BUFFERSIZE -> {Zero, Unknown}]
    /\ \A c \in Clients : BufferKeepsOlder(c)
    /\ program = "echo" => \A c \in Clients : LineIsLast(c) /\ EchoRight(c)

(* The children in gets(). *)
Readers == {c \in Clients : child[c] = "prompting"}

(* There is a prompt or a line of the operator for each of them, and no    *)
(* line is left over for a later one.                                      *)
LineForEveryReader ==
    IsFiniteSet(Readers) /\ Cardinality(Readers) = Len(prompts) + Len(typed)

(* As long as they have never been two, the line is for the one.           *)
AnswerUnderWay ==
    ~crowded =>
        \A c \in Readers :
           /\ Readers = {c}
           /\ \A i \in 1..Len(prompts) : prompts[i] = c
           /\ \A i \in 1..Len(typed) : \E len \in Lengths :
                 typed[i] = TypedLine("operator", c, asked[c], len)

-----------------------------------------------------------------------------
(* A typed line is a sequence of as many bytes, all alike.                 *)
LEMMA LineFacts ==
    ASSUME NEW who \in {"client", "operator"}, NEW c \in Clients,
           NEW k \in 0..MaxMessages, NEW len \in Lengths
    PROVE  /\ TypedLine(who, c, k, len) \in Seq(Byte)
           /\ Len(TypedLine(who, c, k, len)) = len
           /\ \A i \in 1..len : TypedLine(who, c, k, len)[i] = TypedBy(who, c, k)
<1>1. TypedBy(who, c, k) \in Byte /\ len \in Nat
  BY BufferAssumption DEF TypedBy, Byte, Lengths
<1> QED
  BY <1>1 DEF TypedLine

(* The bytes nobody typed, and the line that says bye.                     *)
LEMMA ByteFacts ==
    /\ Zero \in Byte /\ Unknown \in Byte /\ ByeLine \in Seq(Byte) /\ ByeLine # <<>>
    /\ Zero # Unknown /\ Zero.n = 0 /\ Unknown.n = 0
    /\ \A c, k : TypedBy("client", c, k) # Zero /\ TypedBy("client", c, k).n = k
<1>1. 0 \in 0..MaxMessages
  BY MessagesAssumption
<1>2. Zero \in Byte /\ Unknown \in Byte /\ TypedBy("bye", NoOne, 0) \in Byte
  BY <1>1 DEF Zero, Unknown, TypedBy, Byte, NoOne
<1> QED
  BY <1>2 DEF Zero, Unknown, TypedBy, ByeLine

(* recv() writes the line over the beginning of the buffer. *)
LEMMA ReceivedFacts ==
    ASSUME NEW buf \in Buffer, NEW m \in Seq(Byte), Len(m) <= BUFFERSIZE
    PROVE  /\ Received(buf, m) \in Buffer
           /\ \A i \in 1..BUFFERSIZE :
                 Received(buf, m)[i] = IF i <= Len(m) THEN m[i] ELSE buf[i]
<1> DEFINE rest == SubSeq(buf, Len(m) + 1, BUFFERSIZE)
<1>1. BUFFERSIZE \in Nat /\ Len(m) \in Nat /\ BUFFERSIZE - Len(m) \in Nat
  BY BufferAssumption, LenProperties
<1>2. buf \in Seq(Byte) /\ Len(buf) = BUFFERSIZE
  BY <1>1 DEF Buffer
<1>3. /\ rest \in Seq(Byte) /\ Len(rest) = BUFFERSIZE - Len(m)
      /\ \A i \in 1 .. BUFFERSIZE - Len(m) : rest[i] = buf[Len(m) + i]
  BY <1>1, <1>2
<1> HIDE DEF rest
<1>4. /\ m \o rest \in Seq(Byte) /\ Len(m \o rest) = BUFFERSIZE
      /\ \A i \in 1..BUFFERSIZE :
            (m \o rest)[i] = IF i <= Len(m) THEN m[i] ELSE rest[i - Len(m)]
  BY <1>1, <1>3
<1>5. \A i \in 1..BUFFERSIZE :
          (m \o rest)[i] = IF i <= Len(m) THEN m[i] ELSE buf[i]
  <2> SUFFICES ASSUME NEW i \in 1..BUFFERSIZE, ~(i <= Len(m))
               PROVE  rest[i - Len(m)] = buf[i]
    BY <1>4
  <2>1. i - Len(m) \in 1 .. BUFFERSIZE - Len(m) /\ Len(m) + (i - Len(m)) = i
    BY <1>1
  <2> QED
    BY <1>3, <2>1
<1>6. m \o rest \in Buffer
  BY <1>4, LenProperties DEF Buffer
<1> QED
  BY <1>5, <1>6 DEF Received, rest

(* strlen() finds the first terminator. *)
LEMMA TextFacts ==
    ASSUME NEW buf \in Buffer, buf[BUFFERSIZE] = Zero
    PROVE  \E end \in 1..BUFFERSIZE :
              /\ buf[end] = Zero /\ \A j \in 1 .. end - 1 : buf[j] # Zero
              /\ Text(buf) \in Seq(Byte) /\ Len(Text(buf)) = end - 1
              /\ \A i \in 1 .. end - 1 : Text(buf)[i] = buf[i]
<1>1. BUFFERSIZE \in Nat /\ BUFFERSIZE >= 1
  BY BufferAssumption
<1>2. buf \in Seq(Byte) /\ Len(buf) = BUFFERSIZE
  BY <1>1 DEF Buffer
<1> DEFINE Zeros == {i \in 1..BUFFERSIZE : buf[i] = Zero}
           First(i) == buf[i] = Zero /\ \A j \in 1 .. i - 1 : buf[j] # Zero
           end == CHOOSE i \in 1..Len(buf) : First(i)
<1>3. \E i \in 1..Len(buf) : First(i)
  <2>1. PICK i \in Zeros : \A j \in Zeros : i <= j
    <3>1. Zeros \in SUBSET Nat /\ BUFFERSIZE \in Zeros
      BY <1>1
    <3> HIDE DEF Zeros
    <3> QED
      BY <3>1, LeastNumber
  <2>2. \A j \in 1 .. i - 1 : buf[j] # Zero
    BY <1>1, <2>1
  <2> QED
    BY <1>2, <2>1, <2>2
<1>4. end \in 1..Len(buf) /\ First(end)
  <2> HIDE DEF First
  <2> QED
    BY <1>3
<1>5. Text(buf) = SubSeq(buf, 1, end - 1)
  BY DEF Text
<1> HIDE DEF end
<1>6. /\ Text(buf) \in Seq(Byte) /\ Len(Text(buf)) = end - 1
      /\ \A i \in 1 .. end - 1 : Text(buf)[i] = buf[i]
  BY <1>2, <1>4, <1>5
<1> QED
  BY <1>2, <1>4, <1>6

-----------------------------------------------------------------------------
(* The types, with what the text in a buffer needs to end.                 *)
Types == ForkTypeOK /\ LinesFit

(* The types hold to begin with.                                           *)
LEMMA InitForkTypes == ForkInit => Types
<1> SUFFICES ASSUME ForkInit
             PROVE  Types
  OBVIOUS
<1>1. Zero \in Byte /\ Unknown \in Byte /\ BUFFERSIZE \in Nat /\ BUFFERSIZE >= 1
  BY ByteFacts, BufferAssumption
<1>2. EmptyBuffer \in Buffer /\ EmptyBuffer[BUFFERSIZE] = Zero
  BY <1>1 DEF EmptyBuffer, Buffer
<1>3. parentMsg \in Buffer /\ parentMsg[BUFFERSIZE] = Zero
  BY <1>1, <1>2 DEF ForkInit, Buffer
<1>4. program \in {"chat", "echo"} /\ processes \in Nat
  BY ProcessAssumption DEF ForkInit
<1>5. /\ asked \in [Clients -> 0..MaxMessages]
  BY MessagesAssumption DEF ForkInit
<1>6. LinesFit
  BY <1>2, <1>3 DEF ForkInit, LinesFit
<1>7. /\ lastMsg \in [Clients -> Seq(Byte)] /\ toServer \in [Clients -> Seq(Seq(Byte))]
      /\ toClient \in [Clients -> Seq(Seq(Byte))] /\ typed \in Seq(Seq(Byte))
      /\ backlog \in Seq(Clients) /\ prompts \in Seq(Clients)
  <2>1. <<>> \in Seq(Byte) /\ <<>> \in Seq(Seq(Byte)) /\ <<>> \in Seq(Clients)
    OBVIOUS
  <2> QED
    BY <2>1 DEF ForkInit
<1>8. /\ connection \in [Clients -> Connection] /\ msg \in [Clients -> Buffer]
      /\ user \in [Clients -> {"absent", "typing", "waiting", "ended"}]
      /\ child \in [Clients -> {"none", "receiving", "prompting", "refused", "ended"}]
      /\ emptyLine \in [Clients -> BOOLEAN] /\ crowded \in BOOLEAN
  BY <1>2 DEF ForkInit, Connection
<1> QED
  BY <1>3, <1>4, <1>5, <1>6, <1>7, <1>8 DEF Types, ForkTypeOK

(* No line gets too long in a step that sends none to a child.             *)
LEMMA SameLinesFit ==
    LinesFit /\ UNCHANGED <<program, parentMsg, msg, toServer>> => LinesFit'
  BY DEF LinesFit

(* Typing sends the line, if there is anything of it. *)
LEMMA TypingTypes ==
    ASSUME Types, NEW c \in Clients, NEW m \in Seq(Byte), Typing(c, m),
           program = "echo" => Len(m) \in 0 .. BUFFERSIZE - 1
    PROVE  /\ asked' \in [Clients -> 0..MaxMessages]
           /\ toServer' \in [Clients -> Seq(Seq(Byte))]
           /\ LinesFit'
<1>1. /\ asked' = [asked EXCEPT ![c] = @ + 1] /\ asked[c] < MaxMessages
      /\ toServer' = IF m = <<>> \/ child[c] = "refused" THEN toServer
                     ELSE [toServer EXCEPT ![c] = Append(@, m)]
      /\ UNCHANGED <<program, parentMsg, msg>>
  BY DEF Typing
<1>2. /\ asked \in [Clients -> 0..MaxMessages] /\ MaxMessages \in Nat
      /\ toServer \in [Clients -> Seq(Seq(Byte))]
  BY MessagesAssumption DEF Types, ForkTypeOK
<1>3. asked' \in [Clients -> 0..MaxMessages]
  BY <1>1, <1>2
<1>4. toServer' \in [Clients -> Seq(Seq(Byte))]
  BY <1>1, <1>2
<1>5. ASSUME program = "echo", NEW d \in Clients, NEW i \in 1..Len(toServer'[d])
      PROVE  Len(toServer'[d][i]) \in 1 .. BUFFERSIZE - 1
  <2>1. \A j \in 1..Len(toServer[d]) : Len(toServer[d][j]) \in 1 .. BUFFERSIZE - 1
    BY <1>5 DEF Types, LinesFit
  <2>2. CASE m = <<>> \/ child[c] = "refused" \/ d # c
    BY <1>1, <1>2, <1>5, <2>1, <2>2
  <2>3. CASE m # <<>> /\ child[c] # "refused" /\ d = c
    <3>1. toServer'[d] = Append(toServer[d], m) /\ toServer[d] \in Seq(Seq(Byte))
      BY <1>1, <1>2, <2>3
    <3>2. CASE i \in 1..Len(toServer[d])
      BY <2>1, <3>1, <3>2
    <3>3. CASE ~(i \in 1..Len(toServer[d]))
      <4>1. toServer'[d][i] = m
        BY <1>5, <3>1, <3>3
      <4>2. Len(m) \in 0 .. BUFFERSIZE - 1 /\ Len(m) # 0
        BY <1>5, <2>3
      <4> QED
        BY <4>1, <4>2
    <3> QED
      BY <3>2, <3>3
  <2> QED
    BY <2>2, <2>3
<1> QED
  BY <1>1, <1>3, <1>4, <1>5 DEF LinesFit, Types

(* A step of a client keeps the types.                                     *)
LEMMA ClientTypes ==
    ASSUME Types, NEW c \in Clients, ClientStep(c)
    PROVE  Types'
<1> USE DEF Types
<1>1. /\ toClient \in [Clients -> Seq(Seq(Byte))]
      /\ asked \in [Clients -> 0..MaxMessages] /\ MaxMessages \in Nat
  BY MessagesAssumption DEF ForkTypeOK
<1>2. CASE Connect(c)
  <2>1. /\ user' = [user EXCEPT ![c] = "typing"] /\ backlog' = Append(backlog, c)
        /\ UNCHANGED <<program, parentMsg, processes, asked, lastMsg, toServer, toClient,
                       connection, child, msg, prompts, typed, emptyLine, crowded>>
    BY <1>2 DEF Connect, terminalVars
  <2>2. backlog' \in Seq(Clients)
    BY <2>1 DEF ForkTypeOK
  <2> QED
    BY <2>1, <2>2, SameLinesFit DEF ForkTypeOK
<1>3. ASSUME Ends(c)
      PROVE  /\ user' \in [Clients -> {"absent", "typing", "waiting", "ended"}]
             /\ connection' \in [Clients -> Connection]
             /\ toClient' \in [Clients -> Seq(Seq(Byte))]
             /\ lastMsg' \in [Clients -> Seq(Byte)]
  BY <1>3 DEF Ends, ForkTypeOK, AfterClose, Connection
<1>4. CASE SendLine(c)
  <2>1. PICK len \in Lengths :
           /\ Typing(c, TypedLine("client", c, asked[c] + 1, len))
           /\ lastMsg' = [lastMsg EXCEPT ![c] = TypedLine("client", c, asked[c] + 1, len)]
    BY <1>4 DEF SendLine
  <2> DEFINE m == TypedLine("client", c, asked[c] + 1, len)
  <2>2. asked[c] + 1 \in 0..MaxMessages
    BY <1>1, <2>1 DEF Typing
  <2>3. m \in Seq(Byte) /\ Len(m) \in 0 .. BUFFERSIZE - 1
    BY <2>2, LineFacts DEF Lengths
  <2> HIDE DEF m
  <2>4. /\ asked' \in [Clients -> 0..MaxMessages]
        /\ toServer' \in [Clients -> Seq(Seq(Byte))]
        /\ LinesFit'
    BY <2>1, <2>3, TypingTypes DEF m
  <2>5. lastMsg' \in [Clients -> Seq(Byte)]
    BY <2>1, <2>3 DEF m, ForkTypeOK
  <2>6. /\ user' = [user EXCEPT ![c] = "waiting"]
        /\ UNCHANGED <<program, parentMsg, processes, backlog, toClient, connection, child,
                       msg, prompts, typed, emptyLine, crowded>>
    BY <1>4, <2>1 DEF SendLine, Typing, terminalVars
  <2> QED
    BY <2>4, <2>5, <2>6 DEF ForkTypeOK
<1>5. CASE SendBye(c)
  <2>1. program = "chat" /\ Typing(c, ByeLine) /\ Ends(c)
    BY <1>5 DEF SendBye
  <2>2. /\ asked' \in [Clients -> 0..MaxMessages]
        /\ toServer' \in [Clients -> Seq(Seq(Byte))]
        /\ LinesFit'
    BY <2>1, TypingTypes, ByteFacts
  <2>3. UNCHANGED <<program, parentMsg, processes, backlog, child, msg, prompts, typed,
                    emptyLine, crowded>>
    BY <2>1 DEF Typing, terminalVars
  <2> QED
    BY <1>3, <2>1, <2>2, <2>3 DEF ForkTypeOK
<1>6. CASE ReceiveReply(c)
  <2>1. /\ toClient[c] # <<>> /\ toClient' = [toClient EXCEPT ![c] = Tail(@)]
        /\ user' = [user EXCEPT ![c] = "typing"]
        /\ UNCHANGED <<program, parentMsg, processes, backlog, asked, lastMsg, toServer,
                       connection, child, msg, prompts, typed, emptyLine, crowded>>
    BY <1>6 DEF ReceiveReply, terminalVars
  <2>2. toClient' \in [Clients -> Seq(Seq(Byte))]
    BY <1>1, <2>1
  <2> QED
    BY <2>1, <2>2, SameLinesFit DEF ForkTypeOK
<1>7. CASE Interrupt(c) \/ TurnedAway(c)
  <2>1. /\ \/ Ends(c)
           \/ /\ user' = [user EXCEPT ![c] = "typing"]
              /\ UNCHANGED <<lastMsg, toClient, connection>>
        /\ UNCHANGED <<program, parentMsg, processes, backlog, asked, toServer, child, msg,
                       prompts, typed, emptyLine, crowded>>
    BY <1>7 DEF Interrupt, TurnedAway, terminalVars
  <2>2. /\ user' \in [Clients -> {"absent", "typing", "waiting", "ended"}]
        /\ connection' \in [Clients -> Connection]
        /\ toClient' \in [Clients -> Seq(Seq(Byte))]
        /\ lastMsg' \in [Clients -> Seq(Byte)]
    BY <1>3, <2>1 DEF ForkTypeOK
  <2> QED
    BY <2>1, <2>2, SameLinesFit DEF ForkTypeOK
<1> QED
  BY <1>2, <1>4, <1>5, <1>6, <1>7 DEF ClientStep

(* What a child receives: a line of its client, or nothing. *)
LEMMA ReceivesFacts ==
    ASSUME Types, NEW c \in Clients, NEW m \in Incoming(c), Receives(c, m)
    PROVE  /\ m \in Seq(Byte) /\ toServer' \in [Clients -> Seq(Seq(Byte))]
           /\ \A d \in Clients \ {c} : toServer'[d] = toServer[d]
           /\ \/ /\ toServer[c] # <<>> /\ m = Head(toServer[c])
                 /\ toServer'[c] = Tail(toServer[c])
              \/ /\ ReturnsZero(toServer[c], connection[c]) /\ m = <<>>
                 /\ toServer'[c] = toServer[c]
           /\ program = "echo" => Len(m) \in 0 .. BUFFERSIZE - 1
           /\ (/\ program' = program /\ parentMsg' = parentMsg
               /\ \A d \in Clients : msg'[d][BUFFERSIZE] = Zero) => LinesFit'
<1>1. /\ toServer \in [Clients -> Seq(Seq(Byte))] /\ toServer[c] \in Seq(Seq(Byte))
      /\ BUFFERSIZE \in Nat /\ BUFFERSIZE >= 1
  BY BufferAssumption DEF Types, ForkTypeOK
<1>2. CASE toServer[c] # <<>> /\ m = Head(toServer[c])
           /\ toServer' = [toServer EXCEPT ![c] = Tail(@)]
  <2>1. /\ m = toServer[c][1] /\ 1 \in 1..Len(toServer[c]) /\ m \in Seq(Byte)
        /\ Tail(toServer[c]) \in Seq(Seq(Byte))
        /\ \A i \in 1..Len(Tail(toServer[c])) :
              i + 1 \in 1..Len(toServer[c]) /\ Tail(toServer[c])[i] = toServer[c][i + 1]
    BY <1>1, <1>2
  <2>2. program = "echo" => Len(m) \in 0 .. BUFFERSIZE - 1
    <3>1. program = "echo" => Len(toServer[c][1]) \in 1 .. BUFFERSIZE - 1
      BY <2>1 DEF Types, LinesFit
    <3> QED
      BY <2>1, <3>1
  <2>3. /\ toServer' \in [Clients -> Seq(Seq(Byte))] /\ toServer'[c] = Tail(toServer[c])
        /\ \A d \in Clients \ {c} : toServer'[d] = toServer[d]
    BY <1>1, <1>2, <2>1
  <2>4. ASSUME program' = program, parentMsg' = parentMsg,
               \A d \in Clients : msg'[d][BUFFERSIZE] = Zero
        PROVE  LinesFit'
    <3>1. ASSUME program = "echo", NEW d \in Clients, NEW i \in 1..Len(toServer'[d])
          PROVE  Len(toServer'[d][i]) \in 1 .. BUFFERSIZE - 1
      <4>1. \A j \in 1..Len(toServer[d]) : Len(toServer[d][j]) \in 1 .. BUFFERSIZE - 1
        BY <3>1 DEF Types, LinesFit
      <4>2. CASE d = c
        BY <2>1, <2>3, <3>1, <4>1, <4>2
      <4>3. CASE d # c
        BY <2>3, <3>1, <4>1, <4>3
      <4> QED
        BY <4>2, <4>3
    <3> QED
      BY <2>4, <3>1 DEF Types, LinesFit
  <2> QED
    BY <1>2, <2>1, <2>2, <2>3, <2>4
<1>3. CASE ReturnsZero(toServer[c], connection[c]) /\ m = <<>> /\ toServer' = toServer
  <2>1. m \in Seq(Byte) /\ Len(m) \in 0 .. BUFFERSIZE - 1
    BY <1>1, <1>3
  <2>2. ASSUME program' = program, parentMsg' = parentMsg,
               \A d \in Clients : msg'[d][BUFFERSIZE] = Zero
        PROVE  LinesFit'
    BY <1>3, <2>2 DEF Types, LinesFit
  <2> QED
    BY <1>1, <1>3, <2>1, <2>2
<1> QED
  BY <1>2, <1>3 DEF Receives

(* What send() adds to what is on its way to a client.                     *)
LEMMA SendsFacts ==
    ASSUME Types, NEW c \in Clients, NEW text \in Seq(Byte), Sends(c, text)
    PROVE  /\ toClient' \in [Clients -> Seq(Seq(Byte))]
           /\ connection' \in [Clients -> Connection]
           /\ \A d \in Clients \ {c} : /\ toClient'[d] = toClient[d]
                                       /\ connection'[d] = connection[d]
           /\ connection[c] = "open" <=> connection'[c] = "open"
           /\ toClient'[c] = IF connection[c] = "open" /\ text # <<>>
                             THEN Append(toClient[c], text) ELSE toClient[c]
<1>1. /\ toClient \in [Clients -> Seq(Seq(Byte))] /\ connection \in [Clients -> Connection]
  BY DEF Types, ForkTypeOK
<1>2. /\ toClient' = IF connection[c] = "open" /\ text # <<>>
                     THEN [toClient EXCEPT ![c] = Append(@, text)] ELSE toClient
      /\ connection' = IF text = <<>> THEN connection
                       ELSE [connection EXCEPT ![c] = AfterSend(@)]
  BY DEF Sends, Arrives
<1>3. AfterSend(connection[c]) \in Connection
      /\ (AfterSend(connection[c]) = "open" <=> connection[c] = "open")
  BY <1>1 DEF AfterSend, Connection
<1>4. /\ connection' \in [Clients -> Connection]
      /\ \A d \in Clients \ {c} : connection'[d] = connection[d]
      /\ connection[c] = "open" <=> connection'[c] = "open"
  BY <1>1, <1>2, <1>3
<1>5. /\ toClient' \in [Clients -> Seq(Seq(Byte))]
      /\ \A d \in Clients \ {c} : toClient'[d] = toClient[d]
      /\ toClient'[c] = IF connection[c] = "open" /\ text # <<>>
                        THEN Append(toClient[c], text) ELSE toClient[c]
  BY <1>1, <1>2
<1> QED
  BY <1>4, <1>5

(* One turn of an echo child, as far as its client and its buffer go. *)
LEMMA EchoTurnFacts ==
    ASSUME Types, NEW c \in Clients, EchoTurn(c)
    PROVE  \E m \in Seq(Byte) :
              /\ m \in Incoming(c) /\ Receives(c, m) /\ Len(m) \in 0 .. BUFFERSIZE - 1
              /\ msg[c] \in Buffer /\ Received(msg[c], m) \in Buffer
              /\ Received(msg[c], m)[BUFFERSIZE] = Zero
              /\ msg' = [msg EXCEPT ![c] = Received(@, m)]
              /\ Text(Received(msg[c], m)) \in Seq(Byte)
              /\ Sends(c, Text(Received(msg[c], m)))
<1>1. PICK m \in Incoming(c) :
         /\ Receives(c, m) /\ msg' = [msg EXCEPT ![c] = Received(@, m)]
         /\ Sends(c, Text(Received(msg[c], m)))
  BY DEF EchoTurn, EchoText
<1>2. m \in Seq(Byte) /\ Len(m) \in 0 .. BUFFERSIZE - 1
  BY <1>1, ReceivesFacts DEF EchoTurn
<1>3. msg[c] \in Buffer /\ msg[c][BUFFERSIZE] = Zero /\ BUFFERSIZE \in 1..BUFFERSIZE
  BY BufferAssumption DEF Types, ForkTypeOK, LinesFit
<1>4. Len(m) <= BUFFERSIZE /\ ~(BUFFERSIZE <= Len(m))
  BY <1>2, BufferAssumption
<1>5. Received(msg[c], m) \in Buffer /\ Received(msg[c], m)[BUFFERSIZE] = Zero
  BY <1>2, <1>3, <1>4, ReceivedFacts
<1>6. Text(Received(msg[c], m)) \in Seq(Byte)
  BY <1>5, TextFacts
<1> QED
  BY <1>1, <1>2, <1>3, <1>5, <1>6

(* A step of a child keeps the types.                                      *)
LEMMA ChildTypes ==
    ASSUME Types, NEW c \in Clients, ForkedChild(c)
    PROVE  Types'
<1>1. CASE ReceiveFails(c)
  <2>1. /\ child' = [child EXCEPT ![c] = "ended"]
        /\ UNCHANGED <<program, parentMsg, processes, backlog, user, asked, lastMsg,
                       toServer, toClient, connection, msg, prompts, typed, emptyLine,
                       crowded>>
    BY <1>1 DEF ReceiveFails, terminalVars, clientVars
  <2> QED
    BY <2>1, SameLinesFit DEF Types, ForkTypeOK
<1>2. CASE EchoTurn(c)
  <2>1. PICK m \in Seq(Byte) :
              /\ m \in Incoming(c) /\ Receives(c, m)
              /\ Received(msg[c], m) \in Buffer
              /\ Received(msg[c], m)[BUFFERSIZE] = Zero
              /\ msg' = [msg EXCEPT ![c] = Received(@, m)]
              /\ Text(Received(msg[c], m)) \in Seq(Byte)
              /\ Sends(c, Text(Received(msg[c], m)))
    BY <1>2, EchoTurnFacts
  <2> DEFINE buf == Received(msg[c], m)
             text == Text(buf)
  <2>2. /\ child' = [child EXCEPT ![c] = AfterEcho(c)]
        /\ AfterEcho(c) \in {"ended", "receiving"}
        /\ UNCHANGED <<program, parentMsg, processes, backlog, user, asked, lastMsg,
                       prompts, typed, emptyLine, crowded>>
    BY <1>2 DEF EchoTurn, AfterEcho, terminalVars, clientVars
  <2>3. msg' = [msg EXCEPT ![c] = buf] /\ buf \in Buffer /\ buf[BUFFERSIZE] = Zero
        /\ text \in Seq(Byte) /\ Sends(c, text)
    BY <2>1
  <2> HIDE DEF buf, text
  <2>4. /\ msg' \in [Clients -> Buffer] /\ \A d \in Clients : msg'[d][BUFFERSIZE] = Zero
    BY <2>3 DEF Types, ForkTypeOK, LinesFit
  <2>5. toServer' \in [Clients -> Seq(Seq(Byte))] /\ LinesFit'
    BY <2>1, <2>2, <2>4, ReceivesFacts
  <2>6. toClient' \in [Clients -> Seq(Seq(Byte))] /\ connection' \in [Clients -> Connection]
    BY <2>3, SendsFacts
  <2> QED
    BY <2>2, <2>4, <2>5, <2>6 DEF Types, ForkTypeOK
<1>3. CASE ChatReceive(c)
  <2>1. PICK m \in Incoming(c) : Receives(c, m)
    BY <1>3 DEF ChatReceive
  <2>2. /\ \/ child' = [child EXCEPT ![c] = "ended"] /\ UNCHANGED <<prompts, crowded>>
           \/ /\ child' = [child EXCEPT ![c] = "prompting"]
              /\ prompts' = Append(prompts, c)
              /\ crowded' = (crowded \/ \E d \in Clients : child[d] = "prompting")
        /\ UNCHANGED <<program, parentMsg, processes, backlog, user, asked, lastMsg,
                       toClient, connection, msg, typed, emptyLine>>
    BY <1>3 DEF ChatReceive, clientVars
  <2>3. /\ child' \in [Clients -> {"none", "receiving", "prompting", "refused", "ended"}]
        /\ prompts' \in Seq(Clients) /\ crowded' \in BOOLEAN
    <3>1. /\ child \in [Clients -> {"none", "receiving", "prompting", "refused", "ended"}]
          /\ prompts \in Seq(Clients) /\ crowded \in BOOLEAN
      BY DEF Types, ForkTypeOK
    <3>2. child' \in [Clients -> {"none", "receiving", "prompting", "refused", "ended"}]
      BY <2>2, <3>1
    <3>3. Append(prompts, c) \in Seq(Clients)
      BY <3>1
    <3>4. (crowded \/ \E d \in Clients : child[d] = "prompting") \in BOOLEAN
      OBVIOUS
    <3> QED
      BY <2>2, <3>1, <3>2, <3>3, <3>4
  <2>4. \A d \in Clients : msg'[d][BUFFERSIZE] = Zero
    BY <2>2 DEF Types, LinesFit
  <2>5. toServer' \in [Clients -> Seq(Seq(Byte))] /\ LinesFit'
    BY <2>1, <2>2, <2>4, ReceivesFacts
  <2> QED
    BY <2>2, <2>3, <2>5 DEF Types, ForkTypeOK
<1>4. CASE ChatAnswer(c)
  <2>1. /\ typed # <<>> /\ typed' = Tail(typed) /\ Sends(c, Head(typed))
        /\ emptyLine' = [emptyLine EXCEPT ![c] = @ \/ Head(typed) = <<>>]
        /\ child' = [child EXCEPT ![c] = IF SendFails(connection[c])
                                         THEN "ended" ELSE "receiving"]
        /\ UNCHANGED <<program, parentMsg, processes, backlog, user, asked, lastMsg,
                       toServer, msg, prompts, crowded>>
    BY <1>4 DEF ChatAnswer, AfterAnswer, clientVars
  <2>2. typed' \in Seq(Seq(Byte)) /\ Head(typed) \in Seq(Byte)
    BY <2>1 DEF Types, ForkTypeOK
  <2>3. toClient' \in [Clients -> Seq(Seq(Byte))] /\ connection' \in [Clients -> Connection]
    BY <2>1, <2>2, SendsFacts
  <2>4. emptyLine' \in [Clients -> BOOLEAN]
    BY <2>1 DEF Types, ForkTypeOK
  <2>5. child' \in [Clients -> {"none", "receiving", "prompting", "refused", "ended"}]
    BY <2>1 DEF Types, ForkTypeOK
  <2> QED
    BY <2>1, <2>2, <2>3, <2>4, <2>5, SameLinesFit DEF Types, ForkTypeOK
<1> QED
  BY <1>1, <1>2, <1>3, <1>4 DEF ForkedChild

(* A step of the parent, or of the operator, keeps the types.              *)
LEMMA ParentTypes ==
    ASSUME Types, AcceptAndFork \/ OperatorTypes \/ UNCHANGED forkVars
    PROVE  Types'
<1>1. CASE AcceptAndFork
  <2>1. /\ backlog # <<>> /\ backlog' = Tail(backlog)
        /\ \/ /\ processes > 0
              /\ child' = [child EXCEPT ![Head(backlog)] = "receiving"]
              /\ msg' = [msg EXCEPT ![Head(backlog)] = parentMsg]
              /\ processes' = processes - 1 /\ UNCHANGED toServer
           \/ /\ child' = [child EXCEPT ![Head(backlog)] = "refused"]
              /\ toServer' = [toServer EXCEPT ![Head(backlog)] = <<>>]
              /\ UNCHANGED <<msg, processes>>
        /\ UNCHANGED <<program, parentMsg, user, asked, lastMsg, toClient,
                       connection, prompts, typed, crowded, emptyLine>>
    BY <1>1 DEF AcceptAndFork, clientVars, terminalVars
  <2>2. /\ backlog' \in Seq(Clients) /\ Head(backlog) \in Clients
        /\ processes \in Nat /\ msg \in [Clients -> Buffer] /\ parentMsg \in Buffer
        /\ toServer \in [Clients -> Seq(Seq(Byte))]
        /\ child \in [Clients -> {"none", "receiving", "prompting", "refused", "ended"}]
    <3>1. backlog \in Seq(Clients) /\ backlog # <<>>
      BY <2>1 DEF Types, ForkTypeOK
    <3>2. backlog' \in Seq(Clients) /\ Head(backlog) \in Clients
      BY <2>1, <3>1
    <3> QED
      BY <3>2 DEF Types, ForkTypeOK
  <2>3. /\ child' \in [Clients -> {"none", "receiving", "prompting", "refused", "ended"}]
        /\ msg' \in [Clients -> Buffer] /\ processes' \in Nat
    <3> DEFINE c == Head(backlog)
    <3>1. c \in Clients
      BY <2>2
    <3> HIDE DEF c
    <3>2. CASE /\ processes > 0 /\ processes' = processes - 1
               /\ child' = [child EXCEPT ![c] = "receiving"]
               /\ msg' = [msg EXCEPT ![c] = parentMsg]
      BY <2>2, <3>1, <3>2
    <3>3. CASE child' = [child EXCEPT ![c] = "refused"] /\ UNCHANGED <<msg, processes>>
      BY <2>2, <3>1, <3>3
    <3> QED
      BY <2>1, <3>2, <3>3 DEF c
  <2>4. \A d \in Clients : msg'[d][BUFFERSIZE] = Zero
    BY <2>1, <2>2 DEF Types, LinesFit
  <2>5. /\ toServer' \in [Clients -> Seq(Seq(Byte))]
        /\ \A d \in Clients : toServer'[d] = toServer[d] \/ Len(toServer'[d]) = 0
    <3>1. CASE UNCHANGED toServer
      BY <2>2, <3>1
    <3>2. CASE toServer' = [toServer EXCEPT ![Head(backlog)] = <<>>]
      <4>1. <<>> \in Seq(Seq(Byte)) /\ Len(<<>>) = 0
        OBVIOUS
      <4>2. \A d \in Clients : toServer'[d] = IF d = Head(backlog) THEN <<>> ELSE toServer[d]
        BY <2>2, <3>2
      <4> QED
        BY <2>2, <3>2, <4>1, <4>2
    <3> QED
      BY <2>1, <3>1, <3>2
  <2>6. LinesFit'
    <3>1. UNCHANGED <<program, parentMsg>>
      BY <2>1
    <3>2. ASSUME program = "echo", NEW d \in Clients, NEW i \in 1..Len(toServer'[d])
          PROVE  Len(toServer'[d][i]) \in 1 .. BUFFERSIZE - 1
      <4>1. toServer'[d] = toServer[d]
        BY <2>5, <3>2
      <4> QED
        BY <3>2, <4>1 DEF Types, LinesFit
    <3>3. parentMsg'[BUFFERSIZE] = Zero
      BY <3>1 DEF Types, LinesFit
    <3> QED
      BY <2>4, <3>1, <3>2, <3>3 DEF LinesFit
  <2> QED
    BY <2>1, <2>2, <2>3, <2>5, <2>6 DEF Types, ForkTypeOK
<1>2. CASE OperatorTypes
  <2>1. PICK len \in Lengths :
           typed' = Append(typed, TypedLine("operator", Head(prompts), asked[Head(prompts)], len))
    BY <1>2 DEF OperatorTypes
  <2>2. /\ prompts # <<>> /\ prompts' = Tail(prompts)
        /\ UNCHANGED <<program, parentMsg, processes, backlog, user, asked, lastMsg,
                       toServer, toClient, connection, child, msg, crowded, emptyLine>>
    BY <1>2 DEF OperatorTypes, clientVars
  <2>3. /\ Head(prompts) \in Clients /\ prompts' \in Seq(Clients)
        /\ asked[Head(prompts)] \in 0..MaxMessages /\ typed \in Seq(Seq(Byte))
    BY <2>2 DEF Types, ForkTypeOK
  <2>4. typed' \in Seq(Seq(Byte))
    BY <2>1, <2>3, LineFacts
  <2> QED
    BY <2>2, <2>3, <2>4, SameLinesFit DEF Types, ForkTypeOK
<1>3. CASE UNCHANGED forkVars
  BY <1>3, SameLinesFit
  DEF Types, ForkTypeOK, forkVars, clientVars, terminalVars
<1> QED
  BY <1>1, <1>2, <1>3

(* The types always hold.                                                  *)
LEMMA AlwaysForkTypes == ForkSpec => []Types
<1>1. Types /\ [ForkNext]_forkVars => Types'
  BY ClientTypes, ChildTypes, ParentTypes DEF ForkNext
<1> QED
  BY <1>1, InitForkTypes, PTL DEF ForkSpec

(* In both servers every variable keeps its type: the text that strlen()   *)
(* finds ends inside the buffer, because no line is longer than it and     *)
(* the last byte is never overwritten (server.c:55-78;                     *)
(* lab5/server.c:51-78).                                                   *)
THEOREM ForkTypeCorrect == ForkSpec => []ForkTypeOK
<1>1. Types => ForkTypeOK
  BY DEF Types
<1> QED
  BY <1>1, AlwaysForkTypes, PTL

-----------------------------------------------------------------------------
(* A client and its child take turns.                                      *)

(* Appending to nothing.                                                   *)
LEMMA AppendEmpty == \A t : Append(<<>>, t) = <<t>> /\ Len(<<t>>) = 1
  OBVIOUS

(* What is left of a sequence of one element without its head.             *)
LEMMA OneElement ==
    ASSUME NEW S, NEW s \in Seq(S), s # <<>>, Len(s) <= 1
    PROVE  s = <<Head(s)>> /\ Tail(s) = <<>> /\ Head(s) \in S /\ Len(s) = 1
<1>1. Len(s) = 1
  <2>1. Len(s) \in Nat \ {0}
    BY EmptySeq
  <2> QED
    BY <2>1
<1>2. Tail(s) \in Seq(S) /\ Len(Tail(s)) = 0 /\ Head(s) = s[1] /\ Head(s) \in S
  BY <1>1
<1>3. s \in [1..1 -> S]
  BY <1>1, LenProperties
<1>4. s = <<Head(s)>>
  BY <1>2, <1>3
<1> QED
  BY <1>1, <1>2, <1>4, EmptySeq

(* What the lines of c are after a step of c or of its child. *)
LEMMA TypingTurn ==
    ASSUME Types, NEW c \in Clients, OneUnderWay(c), NEW m \in Seq(Byte), Typing(c, m)
    PROVE  /\ toServer[c] = <<>> /\ toClient[c] = <<>> /\ child[c] # "prompting"
           /\ toServer'[c] = IF m = <<>> \/ child[c] = "refused" THEN <<>> ELSE <<m>>
           /\ \A d \in Clients \ {c} : /\ toServer'[d] = toServer[d]
                                       /\ asked'[d] = asked[d]
           /\ asked'[c] = asked[c] + 1
<1>1. toServer[c] = <<>> /\ toClient[c] = <<>> /\ child[c] # "prompting"
  BY DEF OneUnderWay, Typing
<1>2. toServer \in [Clients -> Seq(Seq(Byte))] /\ asked \in [Clients -> 0..MaxMessages]
  BY DEF Types, ForkTypeOK
<1>3. /\ toServer' = IF m = <<>> \/ child[c] = "refused" THEN toServer
                     ELSE [toServer EXCEPT ![c] = Append(@, m)]
      /\ asked' = [asked EXCEPT ![c] = @ + 1]
  BY DEF Typing
<1>4. Append(<<>>, m) = <<m>>
  OBVIOUS
<1> QED
  BY <1>1, <1>2, <1>3, <1>4

(* A child that receives takes the one line there is.                      *)
LEMMA ReceivesTurn ==
    ASSUME Types, NEW c \in Clients, OneUnderWay(c), NEW m \in Incoming(c), Receives(c, m)
    PROVE  /\ toServer'[c] = <<>> /\ toClient[c] = <<>>
           /\ \A d \in Clients \ {c} : toServer'[d] = toServer[d]
           /\ \/ /\ toServer[c] = <<m>> /\ user[c] \in {"waiting", "ended"}
              \/ /\ toServer[c] = <<>> /\ m = <<>> /\ connection[c] # "open"
                 /\ user[c] = "ended"
<1>1. /\ toServer[c] \in Seq(Seq(Byte)) /\ Len(toServer[c]) <= 1
      /\ user[c] \in {"absent", "typing", "waiting", "ended"}
  BY DEF Types, ForkTypeOK, OneUnderWay
<1>2. CASE toServer[c] # <<>> /\ m = Head(toServer[c]) /\ toServer'[c] = Tail(toServer[c])
  <2>2. toServer[c] = <<m>> /\ Tail(toServer[c]) = <<>>
    BY <1>1, <1>2, OneElement
  <2> QED
    BY <1>1, <1>2, <2>2, ReceivesFacts DEF OneUnderWay
<1>3. CASE ReturnsZero(toServer[c], connection[c]) /\ m = <<>> /\ toServer'[c] = toServer[c]
  BY <1>1, <1>3, ReceivesFacts DEF OneUnderWay, ReturnsZero
<1> QED
  BY <1>2, <1>3, ReceivesFacts

(* A step of a client keeps the turns.                                     *)
LEMMA ClientTurn ==
    ASSUME Types, NEW c \in Clients, OneUnderWay(c), ClientStep(c)
    PROVE  OneUnderWay(c)'
<1>1. /\ user \in [Clients -> {"absent", "typing", "waiting", "ended"}]
      /\ connection \in [Clients -> Connection]
      /\ toClient \in [Clients -> Seq(Seq(Byte))] /\ lastMsg \in [Clients -> Seq(Byte)]
  BY DEF Types, ForkTypeOK
<1>2. ASSUME Ends(c)
      PROVE  /\ user'[c] = "ended" /\ connection'[c] # "open" /\ toClient'[c] = <<>>
  BY <1>1, <1>2 DEF Ends, AfterClose
<1>3. CASE Connect(c)
  BY <1>1, <1>3 DEF Connect, OneUnderWay
<1>4. CASE SendLine(c)
  <2>1. PICK len \in Lengths : Typing(c, TypedLine("client", c, asked[c] + 1, len))
    BY <1>4 DEF SendLine
  <2> DEFINE m == TypedLine("client", c, asked[c] + 1, len)
  <2>2. asked[c] + 1 \in 0..MaxMessages
    <3>1. asked[c] < MaxMessages /\ asked[c] \in 0..MaxMessages /\ MaxMessages \in Nat
      BY <2>1, MessagesAssumption DEF Typing, Types, ForkTypeOK
    <3> QED
      BY <3>1
  <2>3. m \in Seq(Byte)
    BY <2>2, LineFacts
  <2> HIDE DEF m
  <2>4. /\ toClient[c] = <<>> /\ child[c] # "prompting"
        /\ toServer'[c] \in {<<>>, <<m>>}
        /\ child[c] = "refused" => toServer'[c] = <<>>
    BY <2>1, <2>3, TypingTurn DEF m
  <2>5. /\ user'[c] = "waiting" /\ user[c] = "typing"
        /\ UNCHANGED <<toClient, connection, child>>
    BY <1>1, <1>4, <2>1 DEF SendLine, Typing
  <2>6. Len(toServer'[c]) <= 1
    <3>1. CASE toServer'[c] = <<>>
      BY <3>1
    <3>2. CASE toServer'[c] = <<m>>
      BY <3>2, AppendEmpty
    <3> QED
      BY <2>4, <3>1, <3>2
  <2> QED
    BY <2>4, <2>5, <2>6 DEF OneUnderWay
<1>5. CASE SendBye(c)
  <2>1. Typing(c, ByeLine) /\ Ends(c) /\ UNCHANGED child
    BY <1>5 DEF SendBye, Typing
  <2>2. /\ toServer'[c] \in {<<>>, <<ByeLine>>} /\ child[c] # "prompting"
        /\ child[c] = "refused" => toServer'[c] = <<>>
    BY <2>1, TypingTurn, ByteFacts
  <2>3. Len(toServer'[c]) <= 1
    <3>1. CASE toServer'[c] = <<>>
      BY <3>1
    <3>2. CASE toServer'[c] = <<ByeLine>>
      BY <3>2, AppendEmpty
    <3> QED
      BY <2>2, <3>1, <3>2
  <2> QED
    BY <1>2, <2>1, <2>2, <2>3 DEF OneUnderWay
<1>6. CASE ReceiveReply(c)
  <2>1. /\ toClient[c] # <<>> /\ toClient'[c] = Tail(toClient[c]) /\ user'[c] = "typing"
        /\ user[c] = "waiting" /\ UNCHANGED <<toServer, connection, child>>
    BY <1>1, <1>6 DEF ReceiveReply
  <2>2. Len(toClient[c]) = 1 /\ toServer[c] = <<>> /\ child[c] # "prompting"
    BY <2>1 DEF OneUnderWay
  <2>3. toClient'[c] = <<>>
    <3>1. toClient[c] \in Seq(Seq(Byte)) /\ Len(toClient[c]) <= 1
      BY <1>1, <2>2
    <3> QED
      BY <2>1, <3>1, OneElement
  <2> QED
    BY <2>1, <2>2, <2>3 DEF OneUnderWay
<1>7. CASE Interrupt(c) \/ TurnedAway(c)
  <2>1. UNCHANGED <<toServer, child>>
    BY <1>7 DEF Interrupt, TurnedAway
  <2>2. CASE Ends(c)
    BY <1>2, <1>7, <2>1, <2>2 DEF Interrupt, TurnedAway, OneUnderWay
  <2>3. CASE ~Ends(c)
    <3>1. /\ child[c] = "refused" /\ user[c] = "waiting" /\ toClient[c] = <<>>
          /\ user'[c] = "typing" /\ UNCHANGED <<toClient, connection>>
      BY <1>1, <1>7, <2>3 DEF Interrupt, TurnedAway
    <3> QED
      BY <2>1, <3>1 DEF OneUnderWay
  <2> QED
    BY <2>2, <2>3
<1> QED
  BY <1>3, <1>4, <1>5, <1>6, <1>7 DEF ClientStep

(* A step of a child keeps the turns of its client and itself.             *)
LEMMA ChildTurn ==
    ASSUME Types, NEW c \in Clients, OneUnderWay(c), ForkedChild(c)
    PROVE  OneUnderWay(c)'
<1>1. /\ child \in [Clients -> {"none", "receiving", "prompting", "refused", "ended"}]
      /\ toClient[c] \in Seq(Seq(Byte))
  BY DEF Types, ForkTypeOK
<1>2. CASE ReceiveFails(c)
  BY <1>1, <1>2 DEF ReceiveFails, clientVars, OneUnderWay
<1>3. CASE EchoTurn(c)
  <2>1. PICK m \in Seq(Byte) :
              /\ m \in Incoming(c) /\ Receives(c, m)
              /\ Text(Received(msg[c], m)) \in Seq(Byte)
              /\ Sends(c, Text(Received(msg[c], m)))
    BY <1>3, EchoTurnFacts
  <2> DEFINE text == Text(Received(msg[c], m))
  <2>2. /\ toServer'[c] = <<>> /\ toClient[c] = <<>>
        /\ connection[c] = "open" => user[c] = "waiting"
    BY <2>1, ReceivesTurn DEF OneUnderWay
  <2>3. /\ connection[c] = "open" <=> connection'[c] = "open"
        /\ \/ toClient'[c] = toClient[c]
           \/ connection[c] = "open" /\ toClient'[c] = Append(toClient[c], text)
    BY <2>1, SendsFacts
  <2>4. child'[c] # "prompting" /\ UNCHANGED user
    BY <1>1, <1>3 DEF EchoTurn, AfterEcho, clientVars
  <2> HIDE DEF text
  <2>5. toClient'[c] # <<>> => connection[c] = "open" /\ Len(toClient'[c]) = 1
    BY <2>2, <2>3, AppendEmpty
  <2>6. Len(toServer'[c]) <= 1
    BY <2>2
  <2> QED
    BY <2>2, <2>3, <2>4, <2>5, <2>6 DEF OneUnderWay
<1>4. CASE ChatReceive(c)
  <2>1. PICK m \in Incoming(c) : Receives(c, m)
    BY <1>4 DEF ChatReceive
  <2>2. /\ toServer'[c] = <<>> /\ toClient[c] = <<>> /\ user[c] \in {"waiting", "ended"}
    BY <2>1, ReceivesTurn
  <2>3. UNCHANGED <<user, toClient, connection>>
    BY <1>4 DEF ChatReceive, clientVars
  <2>4. Len(toServer'[c]) <= 1
    BY <2>2
  <2> QED
    BY <2>2, <2>3, <2>4 DEF OneUnderWay
<1>5. CASE ChatAnswer(c)
  <2> DEFINE text == Head(typed)
  <2>1. /\ child[c] = "prompting" /\ Sends(c, Head(typed)) /\ child'[c] # "prompting"
        /\ UNCHANGED <<user, toServer>> /\ Head(typed) \in Seq(Byte)
    BY <1>1, <1>5 DEF ChatAnswer, AfterAnswer, clientVars, Types, ForkTypeOK
  <2>2. toServer[c] = <<>> /\ toClient[c] = <<>> /\ user[c] \in {"waiting", "ended"}
    BY <2>1 DEF OneUnderWay
  <2>3. /\ connection[c] = "open" <=> connection'[c] = "open"
        /\ \/ toClient'[c] = toClient[c]
           \/ connection[c] = "open" /\ toClient'[c] = Append(toClient[c], text)
    BY <2>1, SendsFacts
  <2> HIDE DEF text
  <2>4. toClient'[c] # <<>> => connection[c] = "open" /\ Len(toClient'[c]) = 1
    BY <2>2, <2>3, AppendEmpty
  <2> QED
    BY <2>1, <2>2, <2>3, <2>4 DEF OneUnderWay
<1> QED
  BY <1>2, <1>3, <1>4, <1>5 DEF ForkedChild

(* A step of c or of its child leaves the conversation of the others alone.*)
LEMMA OthersSame ==
    ASSUME Types, NEW c \in Clients, NEW d \in Clients \ {c},
           ClientStep(c) \/ ForkedChild(c)
    PROVE  /\ user'[d] = user[d] /\ asked'[d] = asked[d] /\ lastMsg'[d] = lastMsg[d]
           /\ toServer'[d] = toServer[d] /\ toClient'[d] = toClient[d]
           /\ connection'[d] = connection[d]
           /\ child'[d] = child[d] /\ msg'[d] = msg[d]
<1>1. /\ user \in [Clients -> {"absent", "typing", "waiting", "ended"}]
      /\ asked \in [Clients -> 0..MaxMessages] /\ lastMsg \in [Clients -> Seq(Byte)]
      /\ toServer \in [Clients -> Seq(Seq(Byte))]
      /\ toClient \in [Clients -> Seq(Seq(Byte))]
      /\ connection \in [Clients -> Connection] /\ msg \in [Clients -> Buffer]
      /\ child \in [Clients -> {"none", "receiving", "prompting", "refused", "ended"}]
  BY DEF Types, ForkTypeOK
<1>2. CASE Connect(c)
  BY <1>1, <1>2 DEF Connect
<1>3. CASE SendLine(c)
  BY <1>1, <1>3 DEF SendLine, Typing
<1>4. CASE SendBye(c)
  BY <1>1, <1>4 DEF SendBye, Typing, Ends
<1>5. CASE ReceiveReply(c)
  BY <1>1, <1>5 DEF ReceiveReply
<1>6. CASE Interrupt(c) \/ TurnedAway(c)
  BY <1>1, <1>6 DEF Interrupt, TurnedAway, Ends
<1>7. CASE ReceiveFails(c)
  BY <1>1, <1>7 DEF ReceiveFails, clientVars
<1>8. CASE EchoTurn(c)
  BY <1>1, <1>8 DEF EchoTurn, Receives, Sends, clientVars
<1>9. CASE ChatReceive(c)
  BY <1>1, <1>9 DEF ChatReceive, Receives, clientVars
<1>10. CASE ChatAnswer(c)
  BY <1>1, <1>10 DEF ChatAnswer, AfterAnswer, Sends, clientVars
<1> QED
  BY <1>2, <1>3, <1>4, <1>5, <1>6, <1>7, <1>8, <1>9, <1>10 DEF ClientStep, ForkedChild

(* What the parent and the operator leave alone. *)
LEMMA ParentLeaves ==
    ASSUME Types, AcceptAndFork \/ OperatorTypes \/ UNCHANGED forkVars
    PROVE  /\ UNCHANGED <<program, parentMsg, user, asked, lastMsg, toClient, connection,
                          crowded>>
           /\ \A c \in Clients :
                 \/ child'[c] = child[c] /\ msg'[c] = msg[c] /\ toServer'[c] = toServer[c]
                 \/ child'[c] = "refused" /\ msg'[c] = msg[c] /\ toServer'[c] = <<>>
                 \/ /\ child'[c] = "receiving" /\ msg'[c] = parentMsg
                    /\ toServer'[c] = toServer[c]
<1>1. CASE AcceptAndFork
  <2>1. /\ child \in [Clients -> {"none", "receiving", "prompting", "refused", "ended"}]
        /\ msg \in [Clients -> Buffer] /\ toServer \in [Clients -> Seq(Seq(Byte))]
    BY DEF Types, ForkTypeOK
  <2> QED
    BY <1>1, <2>1 DEF AcceptAndFork, clientVars, terminalVars
<1>2. CASE OperatorTypes \/ UNCHANGED forkVars
  BY <1>2 DEF OperatorTypes, forkVars, clientVars, terminalVars
<1> QED
  BY <1>1, <1>2

(* Every client and its child always take turns.                           *)
LEMMA AlwaysTakeTurns == ForkSpec => []TakeTurns
<1>1. ForkInit => TakeTurns
  BY DEF ForkInit, TakeTurns, OneUnderWay
<1>2. ASSUME Types, TakeTurns, NEW c \in Clients, ClientStep(c) \/ ForkedChild(c)
      PROVE  TakeTurns'
  <2> SUFFICES ASSUME NEW d \in Clients
               PROVE  OneUnderWay(d)'
    BY DEF TakeTurns
  <2>1. CASE d = c
    BY <1>2, <2>1, ClientTurn, ChildTurn DEF TakeTurns
  <2>2. CASE d # c
    BY <1>2, <2>2, OthersSame DEF TakeTurns, OneUnderWay
  <2> QED
    BY <2>1, <2>2
<1>3. ASSUME Types, TakeTurns, AcceptAndFork \/ OperatorTypes \/ UNCHANGED forkVars
      PROVE  TakeTurns'
  BY <1>3, ParentLeaves DEF TakeTurns, OneUnderWay
<1>4. Types /\ TakeTurns /\ [ForkNext]_forkVars => TakeTurns'
  BY <1>2, <1>3 DEF ForkNext
<1> QED
  BY <1>1, <1>4, AlwaysForkTypes, PTL DEF ForkSpec

-----------------------------------------------------------------------------
(* The echoes. *)
LEMMA OldByte ==
    ASSUME Types, NEW c \in Clients, NEW b, Old(c, b)
    PROVE  b.n \in 0..asked[c]
<1>1. asked[c] \in Nat
  BY MessagesAssumption DEF Types, ForkTypeOK
<1>2. CASE b \in {Zero, Unknown}
  BY <1>1, <1>2, ByteFacts
<1>3. CASE \E k \in 1..asked[c] : b = TypedBy("client", c, k)
  <2>1. PICK k \in 1..asked[c] : b = TypedBy("client", c, k)
    BY <1>3
  <2>2. b.n = k
    BY <2>1, ByteFacts
  <2> QED
    BY <1>1, <2>2
<1> QED
  BY <1>2, <1>3 DEF Old

(* Reading the client's last line into the buffer keeps what is behind it. *)
LEMMA ReceivedKeepsOlder ==
    ASSUME Types, NEW c \in Clients, BufferKeepsOlder(c),
           NEW len \in 0 .. BUFFERSIZE - 1, len # 0 => asked[c] > 0,
           NEW buf, \A i \in 1..BUFFERSIZE :
              buf[i] = IF i <= len THEN TypedBy("client", c, asked[c]) ELSE msg[c][i]
    PROVE  /\ \A i \in 1..BUFFERSIZE : Old(c, buf[i])
           /\ \A i \in 1 .. BUFFERSIZE - 1 : buf[i].n >= buf[i + 1].n
<1>1. BUFFERSIZE \in Nat /\ asked[c] \in Nat
  BY BufferAssumption, MessagesAssumption DEF Types, ForkTypeOK
<1>2. ASSUME NEW i \in 1..BUFFERSIZE
      PROVE  Old(c, buf[i])
  <2>1. CASE i <= len
    <3>1. asked[c] \in 1..asked[c]
      BY <1>1, <2>1
    <3> QED
      BY <2>1, <3>1 DEF Old
  <2>2. CASE ~(i <= len)
    BY <2>2 DEF BufferKeepsOlder
  <2> QED
    BY <2>1, <2>2
<1>3. ASSUME NEW i \in 1 .. BUFFERSIZE - 1
      PROVE  buf[i].n >= buf[i + 1].n
  <2>1. i \in 1..BUFFERSIZE /\ i + 1 \in 1..BUFFERSIZE /\ i \in Nat
    BY <1>1
  <2>2. CASE i <= len
    <3>1. buf[i].n = asked[c]
      BY <2>1, <2>2, ByteFacts
    <3>2. buf[i + 1].n \in 0..asked[c]
      BY <1>2, <2>1, OldByte
    <3> QED
      BY <1>1, <3>1, <3>2
  <2>3. CASE ~(i <= len)
    <3>1. ~(i + 1 <= len)
      BY <2>1, <2>3
    <3>2. buf[i] = msg[c][i] /\ buf[i + 1] = msg[c][i + 1]
      BY <2>1, <2>3, <3>1
    <3> QED
      BY <3>2 DEF BufferKeepsOlder
  <2> QED
    BY <2>2, <2>3
<1> QED
  BY <1>2, <1>3

(* The text in front of the terminator begins with the line, and has       *)
(* nothing but lines and the parent's memory behind it.                    *)
LEMMA TextKeepsOlder ==
    ASSUME Types, NEW c \in Clients, NEW buf \in Buffer, buf[BUFFERSIZE] = Zero,
           \A i \in 1..BUFFERSIZE : Old(c, buf[i]),
           \A i \in 1 .. BUFFERSIZE - 1 : buf[i].n >= buf[i + 1].n,
           Len(lastMsg[c]) \in 1 .. BUFFERSIZE - 1,
           \A i \in 1..Len(lastMsg[c]) :
              buf[i] = lastMsg[c][i] /\ lastMsg[c][i] # Zero
    PROVE  KeepsOlder(c, Text(buf))
<1>1. PICK end \in 1..BUFFERSIZE :
         /\ buf[end] = Zero /\ \A j \in 1 .. end - 1 : buf[j] # Zero
         /\ Text(buf) \in Seq(Byte) /\ Len(Text(buf)) = end - 1
         /\ \A i \in 1 .. end - 1 : Text(buf)[i] = buf[i]
  BY TextFacts
<1> DEFINE text == Text(buf)
           len  == Len(lastMsg[c])
<1>2. /\ BUFFERSIZE \in Nat /\ end \in Nat /\ lastMsg[c] \in Seq(Byte) /\ len \in Nat
      /\ len >= 1
  BY BufferAssumption DEF Types, ForkTypeOK
<1>3. end > len
  <2>1. ~(end \in 1..len)
    BY <1>1
  <2> QED
    BY <1>2, <2>1
<1>4. /\ text \in Seq(Byte) /\ Len(text) = end - 1
      /\ \A i \in 1 .. end - 1 : text[i] = buf[i] /\ buf[i] # Zero
  BY <1>1
<1>5. /\ len <= Len(text) /\ len \in 1..Len(text)
  BY <1>2, <1>3, <1>4
<1> HIDE DEF text
<1>6. SubSeq(text, 1, len) = lastMsg[c]
  <2>1. /\ SubSeq(text, 1, len) \in Seq(Byte) /\ Len(SubSeq(text, 1, len)) = len
        /\ \A i \in 1..len : SubSeq(text, 1, len)[i] = text[i]
    <3> HIDE DEF len
    <3> QED
      BY <1>2, <1>4, <1>5
  <2>2. \A i \in 1..len : text[i] = lastMsg[c][i]
    <3>1. \A i \in 1..len : i \in 1 .. end - 1
      BY <1>2, <1>3
    <3> QED
      BY <1>4, <3>1
  <2> QED
    BY <1>2, <2>1, <2>2, SeqEqual
<1>7. ASSUME NEW i \in 1..Len(text)
      PROVE  text[i] = Unknown \/ \E k \in 1..asked[c] : text[i] = TypedBy("client", c, k)
  <2>1. i \in 1 .. end - 1 /\ i \in 1..BUFFERSIZE
    BY <1>1, <1>2, <1>4
  <2> QED
    BY <1>4, <2>1 DEF Old
<1>8. ASSUME NEW i \in 1 .. Len(text) - 1
      PROVE  text[i].n >= text[i + 1].n
  <2>1. i \in 1 .. end - 1 /\ i + 1 \in 1 .. end - 1 /\ i \in 1 .. BUFFERSIZE - 1
    BY <1>1, <1>2, <1>4
  <2> QED
    BY <1>4, <2>1
<1> QED
  BY <1>5, <1>6, <1>7, <1>8 DEF KeepsOlder, text

(* A client that takes a step has read what was sent to it. *)
LEMMA ClientHasRead ==
    ASSUME Types, NEW c \in Clients, OneUnderWay(c), ClientStep(c)
    PROVE  toClient'[c] = <<>>
<1>0. toClient \in [Clients -> Seq(Seq(Byte))]
  BY DEF Types, ForkTypeOK
<1>1. CASE Connect(c)
  BY <1>1 DEF Connect, OneUnderWay
<1>2. CASE SendLine(c)
  BY <1>2 DEF SendLine, Typing, OneUnderWay
<1>3. CASE ReceiveReply(c)
  <2>1. toClient[c] # <<>> /\ toClient'[c] = Tail(toClient[c])
    BY <1>0, <1>3 DEF ReceiveReply
  <2>2. Len(toClient[c]) = 1
    BY <2>1 DEF OneUnderWay
  <2>3. toClient[c] \in Seq(Seq(Byte)) /\ Len(toClient[c]) <= 1
    BY <1>0, <2>2
  <2> QED
    BY <2>1, <2>3, OneElement
<1>4. CASE SendBye(c) \/ Interrupt(c) \/ TurnedAway(c)
  BY <1>0, <1>4 DEF SendBye, Interrupt, TurnedAway, Ends
<1> QED
  BY <1>1, <1>2, <1>3, <1>4 DEF ClientStep

(* After a step of the client, nothing is under way to it, and what is to  *)
(* its child is its last line.                                             *)
LEMMA ClientEchoes ==
    ASSUME Types, TakeTurns, Echoes, NEW c \in Clients, ClientStep(c)
    PROVE  /\ BufferKeepsOlder(c)'
           /\ program = "echo" => LineIsLast(c)' /\ EchoRight(c)'
           /\ UNCHANGED <<program, parentMsg>>
<1>1. OneUnderWay(c) /\ BufferKeepsOlder(c)
  BY DEF TakeTurns, Echoes
<1>2. /\ user \in [Clients -> {"absent", "typing", "waiting", "ended"}]
      /\ asked[c] \in Nat /\ lastMsg \in [Clients -> Seq(Byte)]
      /\ toClient \in [Clients -> Seq(Seq(Byte))]
      /\ asked \in [Clients -> 0..MaxMessages] /\ MaxMessages \in Nat
  BY MessagesAssumption DEF Types, ForkTypeOK
<1>3. UNCHANGED <<program, parentMsg, child, msg>>
  BY DEF ClientStep, Connect, SendLine, SendBye, Typing, ReceiveReply, Interrupt, TurnedAway
<1>4. asked'[c] \in {asked[c], asked[c] + 1}
  BY <1>2 DEF ClientStep, Connect, SendLine, SendBye, Typing, ReceiveReply, Interrupt,
              TurnedAway, clientVars
<1>5. BufferKeepsOlder(c)'
  <2>1. \A k \in 1..asked[c] : k \in 1..asked'[c]
    BY <1>2, <1>4
  <2> QED
    BY <1>1, <1>3, <2>1 DEF BufferKeepsOlder, Old
<1>6. toClient'[c] = <<>>
  BY <1>1, ClientHasRead
<1>7. ASSUME program = "echo"
      PROVE  LineIsLast(c)'
  <2>1. LineIsLast(c)
    BY <1>7 DEF Echoes
  <2>2. CASE Connect(c) \/ ReceiveReply(c)
    <3>1. toServer'[c] = <<>>
      BY <1>1, <2>2 DEF Connect, ReceiveReply, OneUnderWay
    <3> QED
      BY <1>3, <2>1, <3>1 DEF LineIsLast
  <2>3. CASE SendLine(c)
    <3>1. PICK len \in Lengths :
             /\ Typing(c, TypedLine("client", c, asked[c] + 1, len))
             /\ lastMsg' = [lastMsg EXCEPT ![c] = TypedLine("client", c, asked[c] + 1, len)]
      BY <2>3 DEF SendLine
    <3> DEFINE m == TypedLine("client", c, asked[c] + 1, len)
    <3>2. asked[c] + 1 \in 0..MaxMessages
      <4>1. asked[c] < MaxMessages
        BY <3>1 DEF Typing
      <4> QED
        BY <1>2, <4>1
    <3>3. m \in Seq(Byte) /\ Len(m) = len
      BY <3>2, LineFacts
    <3>4. /\ toServer'[c] \in IF m = <<>> THEN {<<>>} ELSE {<<>>, <<m>>}
          /\ asked'[c] = asked[c] + 1 /\ lastMsg'[c] = m
      <4> HIDE DEF m
      <4>1. Typing(c, m) /\ lastMsg' = [lastMsg EXCEPT ![c] = m]
        BY <3>1 DEF m
      <4> QED
        BY <1>1, <1>2, <3>3, <4>1, TypingTurn
    <3>5. m # <<>> => len \in 1 .. BUFFERSIZE - 1
      <4>1. m # <<>> => Len(m) \in Nat \ {0}
        <5> HIDE DEF m
        <5> QED
          BY <3>3, EmptySeq
      <4> QED
        BY <3>3, <4>1 DEF Lengths
    <3>6. m = TypedLine("client", c, asked'[c], len) /\ asked'[c] > 0
      BY <1>2, <3>4
    <3> HIDE DEF m
    <3>7. ASSUME NEW i \in 1..Len(toServer'[c])
          PROVE  toServer'[c][i] = m /\ m # <<>>
      BY <3>4, <3>7
    <3> QED
      BY <1>3, <2>1, <3>4, <3>5, <3>6, <3>7 DEF LineIsLast
  <2>4. CASE Interrupt(c) \/ TurnedAway(c)
    <3>1. user'[c] # "waiting" /\ UNCHANGED <<toServer, asked, child>>
      BY <1>2, <2>4 DEF Interrupt, TurnedAway, Ends
    <3> QED
      BY <2>1, <3>1 DEF LineIsLast
  <2>5. ~SendBye(c)
    BY <1>7 DEF SendBye
  <2> QED
    BY <2>2, <2>3, <2>4, <2>5 DEF ClientStep
<1> QED
  BY <1>3, <1>5, <1>6, <1>7 DEF EchoRight

(* One turn of an echo child sends its client the last line and what is    *)
(* left of the older ones.                                                 *)
LEMMA EchoTurnEchoes ==
    ASSUME Types, TakeTurns, Echoes, NEW c \in Clients, EchoTurn(c)
    PROVE  BufferKeepsOlder(c)' /\ LineIsLast(c)' /\ EchoRight(c)'
<1>1. OneUnderWay(c) /\ BufferKeepsOlder(c) /\ LineIsLast(c) /\ program = "echo"
  BY DEF TakeTurns, Echoes, EchoTurn
<1>2. PICK m \in Seq(Byte) :
         /\ m \in Incoming(c) /\ Receives(c, m) /\ Len(m) \in 0 .. BUFFERSIZE - 1
         /\ msg[c] \in Buffer /\ Received(msg[c], m) \in Buffer
         /\ Received(msg[c], m)[BUFFERSIZE] = Zero
         /\ msg' = [msg EXCEPT ![c] = Received(@, m)]
         /\ Text(Received(msg[c], m)) \in Seq(Byte)
         /\ Sends(c, Text(Received(msg[c], m)))
  BY EchoTurnFacts
<1> DEFINE buf == Received(msg[c], m)
           text == Text(buf)
<1>3. /\ UNCHANGED <<user, asked, lastMsg, program>>
      /\ child' = [child EXCEPT ![c] = AfterEcho(c)] /\ AfterEcho(c) # "prompting"
  BY DEF EchoTurn, clientVars, AfterEcho
<1>4. /\ child \in [Clients -> {"none", "receiving", "prompting", "refused", "ended"}]
      /\ msg \in [Clients -> Buffer] /\ BUFFERSIZE \in Nat /\ asked[c] \in Nat
      /\ asked[c] \in 0..MaxMessages
  BY BufferAssumption, MessagesAssumption DEF Types, ForkTypeOK
<1>5. /\ toServer'[c] = <<>> /\ toClient[c] = <<>>
      /\ \/ toServer[c] = <<m>> /\ user[c] \in {"waiting", "ended"}
         \/ toServer[c] = <<>> /\ m = <<>> /\ connection[c] # "open"
  BY <1>1, <1>2, ReceivesTurn
<1>6. msg'[c] = buf
  BY <1>2, <1>4
<1>7. /\ m # <<>> => asked[c] > 0
      /\ \A i \in 1..Len(m) : m[i] = TypedBy("client", c, asked[c])
      /\ m # <<>> /\ user[c] = "waiting" => m = lastMsg[c]
      /\ connection[c] = "open" => m # <<>> /\ user[c] = "waiting"
  <2>1. CASE toServer[c] = <<m>> /\ user[c] \in {"waiting", "ended"}
    <3>1. toServer[c][1] = m /\ 1 \in 1..Len(toServer[c])
      BY <2>1
    <3>2. /\ asked[c] > 0
          /\ user[c] = "waiting" => m = lastMsg[c]
          /\ \E len \in 1 .. BUFFERSIZE - 1 : m = TypedLine("client", c, asked[c], len)
      BY <1>1, <3>1 DEF LineIsLast
    <3>3. PICK len \in 1 .. BUFFERSIZE - 1 : m = TypedLine("client", c, asked[c], len)
      BY <3>2
    <3>4. Len(m) = len /\ \A i \in 1..len : m[i] = TypedBy("client", c, asked[c])
      <4>1. len \in Lengths
        BY <1>4 DEF Lengths
      <4> QED
        BY <1>4, <3>3, <4>1, LineFacts
    <3>5. m # <<>>
      BY <3>4, EmptySeq
    <3>6. connection[c] = "open" => user[c] = "waiting"
      BY <1>1, <2>1 DEF OneUnderWay
    <3> QED
      BY <3>2, <3>4, <3>5, <3>6
  <2>2. CASE toServer[c] = <<>> /\ m = <<>> /\ connection[c] # "open"
    BY <2>2
  <2> QED
    BY <1>5, <2>1, <2>2
<1>8. /\ \A i \in 1..BUFFERSIZE : buf[i] = IF i <= Len(m) THEN m[i] ELSE msg[c][i]
      /\ buf \in Buffer /\ buf[BUFFERSIZE] = Zero
  <2>1. Len(m) <= BUFFERSIZE
    BY <1>2, <1>4
  <2> QED
    BY <1>2, <2>1, ReceivedFacts
<1> HIDE DEF buf
<1>9. /\ \A i \in 1..BUFFERSIZE : Old(c, buf[i])
      /\ \A i \in 1 .. BUFFERSIZE - 1 : buf[i].n >= buf[i + 1].n
  <2> DEFINE len == Len(m)
  <2>1. len \in 0 .. BUFFERSIZE - 1 /\ (len # 0 => asked[c] > 0)
    <3>1. len # 0 => m # <<>>
      BY EmptySeq
    <3> QED
      BY <1>2, <1>7, <3>1
  <2>2. \A i \in 1..BUFFERSIZE :
            buf[i] = IF i <= len THEN TypedBy("client", c, asked[c]) ELSE msg[c][i]
    <3>1. \A i \in 1..BUFFERSIZE : i <= len => i \in 1..Len(m)
      BY <1>4
    <3> QED
      BY <1>7, <1>8, <3>1
  <2> HIDE DEF len
  <2> QED
    BY <1>1, <2>1, <2>2, ReceivedKeepsOlder
<1>10. BufferKeepsOlder(c)'
  BY <1>3, <1>6, <1>9 DEF BufferKeepsOlder, Old
<1>11. LineIsLast(c)'
  BY <1>3, <1>4, <1>5 DEF LineIsLast
<1>12. EchoRight(c)'
  <2>1. toClient'[c] = IF connection[c] = "open" /\ text # <<>> THEN <<text>> ELSE <<>>
    <3>1. Sends(c, text) /\ text \in Seq(Byte)
      BY <1>2 DEF buf
    <3> HIDE DEF text
    <3>2. toClient'[c] = IF connection[c] = "open" /\ text # <<>>
                         THEN Append(toClient[c], text) ELSE toClient[c]
      BY <3>1, SendsFacts
    <3> QED
      BY <1>5, <3>2, AppendEmpty
  <2>2. CASE connection[c] = "open" /\ text # <<>>
    <3>1. m = lastMsg[c] /\ Len(m) \in 1 .. BUFFERSIZE - 1
      <4>1. Len(m) # 0
        BY <1>7, <2>2, EmptySeq
      <4> QED
        BY <1>2, <1>7, <2>2, <4>1
    <3>2. \A i \in 1..Len(lastMsg[c]) : buf[i] = lastMsg[c][i] /\ lastMsg[c][i] # Zero
      <4>1. \A i \in 1..Len(m) : buf[i] = m[i] /\ m[i] # Zero
        <5>1. \A i \in 1..Len(m) : i \in 1..BUFFERSIZE /\ i <= Len(m)
          BY <1>2, <1>4
        <5>2. TypedBy("client", c, asked[c]) # Zero
          BY ByteFacts
        <5> QED
          BY <1>7, <1>8, <5>1, <5>2
      <4> QED
        BY <3>1, <4>1
    <3>3. Len(lastMsg[c]) \in 1 .. BUFFERSIZE - 1
      BY <3>1
    <3>4. KeepsOlder(c, text)
      BY <1>8, <1>9, <3>2, <3>3, TextKeepsOlder
    <3> HIDE DEF text
    <3>5. Head(toClient'[c]) = text
      BY <2>1, <2>2
    <3> QED
      BY <1>3, <3>4, <3>5 DEF EchoRight, KeepsOlder
  <2>3. CASE ~(connection[c] = "open" /\ text # <<>>)
    <3> HIDE DEF text
    <3> QED
      BY <2>1, <2>3 DEF EchoRight
  <2> QED
    BY <2>2, <2>3
<1> QED
  BY <1>10, <1>11, <1>12

(* A step of a child keeps the echoes right.                               *)
LEMMA ChildEchoes ==
    ASSUME Types, TakeTurns, Echoes, NEW c \in Clients, ForkedChild(c)
    PROVE  /\ BufferKeepsOlder(c)'
           /\ program = "echo" => LineIsLast(c)' /\ EchoRight(c)'
           /\ UNCHANGED <<program, parentMsg>>
<1>1. UNCHANGED <<program, parentMsg, asked, lastMsg, user>>
  BY DEF ForkedChild, ReceiveFails, EchoTurn, ChatReceive, ChatAnswer, clientVars
<1>2. BufferKeepsOlder(c) /\ (program = "echo" => LineIsLast(c) /\ EchoRight(c))
  BY DEF Echoes
<1>3. CASE ReceiveFails(c)
  <2>1. UNCHANGED <<toServer, toClient, msg>> /\ child'[c] = "ended"
    BY <1>3 DEF ReceiveFails, Types, ForkTypeOK
  <2> QED
    BY <1>1, <1>2, <2>1
    DEF BufferKeepsOlder, Old, LineIsLast, EchoRight, KeepsOlder
<1>4. CASE EchoTurn(c)
  BY <1>1, <1>4, EchoTurnEchoes
<1>5. CASE ChatReceive(c)
  <2>1. program # "echo" /\ UNCHANGED msg
    BY <1>5 DEF ChatReceive
  <2> QED
    BY <1>1, <1>2, <2>1 DEF BufferKeepsOlder, Old
<1>6. CASE ChatAnswer(c)
  <2>1. child[c] = "prompting" /\ UNCHANGED msg
    BY <1>6 DEF ChatAnswer
  <2>2. program # "echo"
    BY <1>2, <2>1 DEF LineIsLast
  <2> QED
    BY <1>1, <1>2, <2>1, <2>2 DEF BufferKeepsOlder, Old
<1> QED
  BY <1>3, <1>4, <1>5, <1>6 DEF ForkedChild

(* There is no echo to begin with.                                         *)
LEMMA InitEchoes == ForkInit => Echoes
<1> SUFFICES ASSUME ForkInit
             PROVE  Echoes
  OBVIOUS
<1>1. EmptyBuffer \in [1..BUFFERSIZE -> {Zero, Unknown}]
  BY DEF EmptyBuffer
<1>2. parentMsg \in [1..BUFFERSIZE -> {Zero, Unknown}]
  BY <1>1 DEF ForkInit
<1>3. ASSUME NEW c \in Clients
      PROVE  BufferKeepsOlder(c) /\ LineIsLast(c) /\ EchoRight(c)
  <2>1. msg[c] = EmptyBuffer /\ toServer[c] = <<>> /\ toClient[c] = <<>> /\ child[c] = "none"
    BY DEF ForkInit
  <2>2. \A i \in 1..BUFFERSIZE : msg[c][i] = Zero
    BY <2>1 DEF EmptyBuffer
  <2>3. \A i \in 1 .. BUFFERSIZE - 1 : i \in 1..BUFFERSIZE /\ i + 1 \in 1..BUFFERSIZE
    BY BufferAssumption
  <2>4. BufferKeepsOlder(c)
    BY <2>2, <2>3, ByteFacts DEF BufferKeepsOlder, Old
  <2> QED
    BY <2>1, <2>4 DEF LineIsLast, EchoRight
<1> QED
  BY <1>2, <1>3 DEF Echoes

(* Buffers, lines under way and echoes are always right.                   *)
LEMMA AlwaysEchoes == ForkSpec => []Echoes
<1>1. ASSUME Types, TakeTurns, Echoes, NEW c \in Clients, ClientStep(c) \/ ForkedChild(c)
      PROVE  Echoes'
  <2>1. /\ BufferKeepsOlder(c)' /\ UNCHANGED <<program, parentMsg>>
        /\ program = "echo" => LineIsLast(c)' /\ EchoRight(c)'
    BY <1>1, ClientEchoes, ChildEchoes
  <2>2. ASSUME NEW d \in Clients \ {c}
        PROVE  /\ BufferKeepsOlder(d)'
               /\ program = "echo" => LineIsLast(d)' /\ EchoRight(d)'
    <3>1. /\ user'[d] = user[d] /\ asked'[d] = asked[d] /\ lastMsg'[d] = lastMsg[d]
          /\ toServer'[d] = toServer[d] /\ toClient'[d] = toClient[d]
          /\ child'[d] = child[d] /\ msg'[d] = msg[d]
      BY <1>1, OthersSame
    <3>2. BufferKeepsOlder(d) /\ (program = "echo" => LineIsLast(d) /\ EchoRight(d))
      BY <1>1 DEF Echoes
    <3> QED
      BY <3>1, <3>2 DEF BufferKeepsOlder, Old, LineIsLast, EchoRight, KeepsOlder
  <2> QED
    BY <1>1, <2>1, <2>2 DEF Echoes
<1>2. ASSUME Types, Echoes, AcceptAndFork \/ OperatorTypes \/ UNCHANGED forkVars
      PROVE  Echoes'
  <2>1. UNCHANGED <<program, parentMsg, user, asked, lastMsg, toClient>>
    BY <1>2, ParentLeaves
  <2>2. ASSUME NEW c \in Clients
        PROVE  /\ BufferKeepsOlder(c)'
               /\ program = "echo" => LineIsLast(c)' /\ EchoRight(c)'
    <3>1. BufferKeepsOlder(c) /\ (program = "echo" => LineIsLast(c) /\ EchoRight(c))
      BY <1>2 DEF Echoes
    <3>2. /\ child'[c] = child[c] \/ child'[c] \in {"refused", "receiving"}
          /\ msg'[c] = msg[c] \/ msg'[c] = parentMsg
          /\ toServer'[c] = toServer[c] \/ Len(toServer'[c]) = 0
      BY <1>2, ParentLeaves
    <3>3. CASE msg'[c] = msg[c]
      BY <2>1, <3>1, <3>2, <3>3
      DEF BufferKeepsOlder, Old, LineIsLast, EchoRight, KeepsOlder
    <3>4. CASE msg'[c] = parentMsg
      <4>1. \A i \in 1..BUFFERSIZE : parentMsg[i] \in {Zero, Unknown}
        BY <1>2 DEF Echoes
      <4>2. \A i \in 1 .. BUFFERSIZE - 1 : i \in 1..BUFFERSIZE /\ i + 1 \in 1..BUFFERSIZE
        BY BufferAssumption
      <4>3. BufferKeepsOlder(c)'
        BY <3>4, <4>1, <4>2, ByteFacts DEF BufferKeepsOlder, Old
      <4> QED
        BY <2>1, <3>1, <3>2, <4>3 DEF LineIsLast, EchoRight, KeepsOlder
    <3> QED
      BY <3>2, <3>3, <3>4
  <2> QED
    BY <1>2, <2>1, <2>2 DEF Echoes
<1>3. Types /\ TakeTurns /\ Echoes /\ [ForkNext]_forkVars => Echoes'
  BY <1>1, <1>2 DEF ForkNext
<1> QED
  BY <1>3, InitEchoes, AlwaysForkTypes, AlwaysTakeTurns, PTL DEF ForkSpec

(* An echo is the client's last line and, behind it, older ones of its     *)
(* own, the older the farther behind, and never one of another client's    *)
(* (lab5/server.c:47,62-78).                                               *)
THEOREM AlwaysEchoKeepsOlder == ForkSpec => []EchoKeepsOlder
<1>1. Echoes => EchoKeepsOlder
  BY DEF Echoes, EchoRight, EchoKeepsOlder
<1> QED
  BY <1>1, AlwaysEchoes, PTL

-----------------------------------------------------------------------------
(* The terminal of the chat. *)
LEMMA AlwaysBacklogNew == ForkSpec => []BacklogNew
<1>1. ForkInit => BacklogNew
  BY DEF ForkInit, BacklogNew
<1>2. ASSUME Types, BacklogNew, NEW c \in Clients, ClientStep(c) \/ ForkedChild(c)
      PROVE  BacklogNew'
  <2>1. /\ backlog \in Seq(Clients)
        /\ user \in [Clients -> {"absent", "typing", "waiting", "ended"}]
        /\ child \in [Clients -> {"none", "receiving", "prompting", "refused", "ended"}]
    BY <1>2 DEF Types, ForkTypeOK
  <2>2. CASE Connect(c)
    <3>1. /\ user[c] = "absent" /\ user' = [user EXCEPT ![c] = "typing"]
          /\ backlog' = Append(backlog, c) /\ UNCHANGED child
      BY <2>2 DEF Connect
    <3>2. child[c] = "none" /\ \A i \in 1..Len(backlog) : backlog[i] # c
      BY <1>2, <3>1 DEF BacklogNew
    <3>3. /\ Len(backlog) \in Nat /\ Len(backlog') = Len(backlog) + 1
          /\ \A i \in 1..Len(backlog) : backlog'[i] = backlog[i]
          /\ backlog'[Len(backlog) + 1] = c
      BY <2>1, <3>1
    <3>4. \A i \in 1..Len(backlog') :
              i \in 1..Len(backlog) \/ i = Len(backlog) + 1
      BY <3>3
    <3>5. \A i \in 1..Len(backlog') : child'[backlog'[i]] = "none"
      BY <1>2, <3>1, <3>2, <3>3, <3>4 DEF BacklogNew
    <3>6. \A i, j \in 1..Len(backlog') : backlog'[i] = backlog'[j] => i = j
      BY <1>2, <3>2, <3>3, <3>4 DEF BacklogNew
    <3>7. \A d \in Clients : user'[d] = "absent" =>
              child'[d] = "none" /\ \A i \in 1..Len(backlog') : backlog'[i] # d
      BY <1>2, <2>1, <3>1, <3>3, <3>4 DEF BacklogNew
    <3> QED
      BY <3>5, <3>6, <3>7 DEF BacklogNew
  <2>3. CASE ~Connect(c)
    <3>1. /\ UNCHANGED backlog
          /\ child' = child \/ child[c] \in {"receiving", "prompting"}
      BY <1>2, <2>3
      DEF ClientStep, ForkedChild, SendLine, SendBye, Typing, ReceiveReply, Interrupt,
          TurnedAway, ReceiveFails, EchoTurn, ChatReceive, ChatAnswer, Receives
    <3>2. \A d \in Clients : child[d] = "none" => child'[d] = "none"
      <4>1. \A d \in Clients \ {c} : child'[d] = child[d]
        BY <1>2, OthersSame
      <4> QED
        BY <3>1, <4>1
    <3>3. \A i \in 1..Len(backlog) : backlog[i] \in Clients
      BY <2>1
    <3>4. \A d \in Clients : user'[d] = "absent" => user[d] = "absent"
      <4>1. \A d \in Clients \ {c} : user'[d] = user[d]
        BY <1>2, OthersSame
      <4>2. user'[c] = user[c] \/ user'[c] # "absent"
        BY <1>2, <2>1, <2>3
        DEF ClientStep, ForkedChild, SendLine, SendBye, Ends, ReceiveReply, Interrupt,
            TurnedAway, ReceiveFails, EchoTurn, ChatReceive, ChatAnswer, clientVars
      <4> QED
        BY <4>1, <4>2
    <3> QED
      BY <1>2, <3>1, <3>2, <3>3, <3>4 DEF BacklogNew
  <2> QED
    BY <2>2, <2>3
<1>3. ASSUME Types, BacklogNew, AcceptAndFork
      PROVE  BacklogNew'
  <2>1. /\ backlog \in Seq(Clients) /\ backlog # <<>> /\ backlog' = Tail(backlog)
        /\ \E s : child' = [child EXCEPT ![Head(backlog)] = s]
        /\ child \in [Clients -> {"none", "receiving", "prompting", "refused", "ended"}]
        /\ UNCHANGED user
    BY <1>3 DEF AcceptAndFork, Types, ForkTypeOK, clientVars
  <2>2. /\ Head(backlog) = backlog[1] /\ 1 \in 1..Len(backlog) /\ Head(backlog) \in Clients
        /\ \A i \in 1..Len(backlog') :
              i + 1 \in 2..Len(backlog) /\ backlog'[i] = backlog[i + 1]
        /\ \A i \in 1..Len(backlog) : backlog[i] \in Clients
    BY <2>1
  <2>3. \A d \in Clients : d # Head(backlog) => child'[d] = child[d]
    BY <2>1, <2>2
  <2>4. \A i \in 2..Len(backlog) : i \in 1..Len(backlog) /\ backlog[i] # Head(backlog)
    <3>1. \A i \in 2..Len(backlog) : i \in 1..Len(backlog) /\ i # 1
      BY <2>1
    <3> QED
      BY <1>3, <2>2, <3>1 DEF BacklogNew
  <2>5. \A i \in 1..Len(backlog') : child'[backlog'[i]] = "none"
    BY <1>3, <2>2, <2>3, <2>4 DEF BacklogNew
  <2>6. \A i, j \in 1..Len(backlog') : backlog'[i] = backlog'[j] => i = j
    <3> SUFFICES ASSUME NEW i \in 1..Len(backlog'), NEW j \in 1..Len(backlog'),
                        backlog'[i] = backlog'[j]
                 PROVE  i = j
      OBVIOUS
    <3>1. i + 1 = j + 1
      BY <1>3, <2>2, <2>4 DEF BacklogNew
    <3> QED
      BY <3>1
  <2>7. \A d \in Clients : user'[d] = "absent" =>
              child'[d] = "none" /\ \A i \in 1..Len(backlog') : backlog'[i] # d
    BY <1>3, <2>1, <2>2, <2>3, <2>4 DEF BacklogNew
  <2> QED
    BY <2>5, <2>6, <2>7 DEF BacklogNew
<1>4. BacklogNew /\ (OperatorTypes \/ UNCHANGED forkVars) => BacklogNew'
  BY DEF BacklogNew, OperatorTypes, forkVars, clientVars
<1>5. Types /\ BacklogNew /\ [ForkNext]_forkVars => BacklogNew'
  BY <1>2, <1>3, <1>4 DEF ForkNext
<1> QED
  BY <1>1, <1>5, AlwaysForkTypes, PTL DEF ForkSpec

(* How a step changes who is in gets(), and what there is for them. *)
LEMMA ReadersByStep ==
    ASSUME Types, BacklogNew, [ForkNext]_forkVars
    PROVE  \/ Readers' = Readers /\ UNCHANGED <<prompts, typed, crowded>>
           \/ /\ OperatorTypes /\ Readers' = Readers /\ UNCHANGED <<asked, crowded>>
           \/ \E c \in Clients :
                 /\ ChatReceive(c) /\ Readers' = Readers \cup {c} /\ c \notin Readers
                 /\ prompts' = Append(prompts, c) /\ UNCHANGED <<typed, asked>>
                 /\ crowded' = (crowded \/ Readers # {})
           \/ \E c \in Clients :
                 /\ ChatAnswer(c) /\ Readers' = Readers \ {c} /\ c \in Readers
                 /\ typed # <<>> /\ typed' = Tail(typed)
                 /\ UNCHANGED <<prompts, asked, crowded>>
<1>1. child \in [Clients -> {"none", "receiving", "prompting", "refused", "ended"}]
  BY DEF Types, ForkTypeOK
<1>2. ASSUME NEW c \in Clients, ClientStep(c)
      PROVE  Readers' = Readers /\ UNCHANGED <<prompts, typed, crowded>>
  <2>1. UNCHANGED <<child, prompts, typed, crowded>>
    BY <1>2
    DEF ClientStep, Connect, SendLine, SendBye, Typing, ReceiveReply, Interrupt,
        TurnedAway, terminalVars
  <2> QED
    BY <2>1 DEF Readers
<1>3. ASSUME NEW c \in Clients, ReceiveFails(c) \/ EchoTurn(c)
      PROVE  Readers' = Readers /\ UNCHANGED <<prompts, typed, crowded>>
  <2>1. /\ child[c] = "receiving" /\ UNCHANGED <<prompts, typed, crowded>>
        /\ child' = [child EXCEPT ![c] = "ended"] \/ child' = [child EXCEPT ![c] = "receiving"]
    BY <1>3 DEF ReceiveFails, EchoTurn, Receives, AfterEcho, terminalVars
  <2> QED
    BY <1>1, <2>1 DEF Readers
<1>4. ASSUME NEW c \in Clients, ChatReceive(c)
      PROVE  \/ Readers' = Readers /\ UNCHANGED <<prompts, typed, crowded>>
             \/ /\ Readers' = Readers \cup {c} /\ c \notin Readers
                /\ prompts' = Append(prompts, c) /\ UNCHANGED <<typed, asked>>
                /\ crowded' = (crowded \/ Readers # {})
  <2>1. child[c] = "receiving" /\ UNCHANGED <<typed, asked>>
    BY <1>4 DEF ChatReceive, Receives, clientVars
  <2>2. CASE child' = [child EXCEPT ![c] = "ended"] /\ UNCHANGED <<prompts, crowded>>
    BY <1>1, <2>1, <2>2 DEF Readers
  <2>3. CASE /\ child' = [child EXCEPT ![c] = "prompting"]
             /\ prompts' = Append(prompts, c)
             /\ crowded' = (crowded \/ \E d \in Clients : child[d] = "prompting")
    <3>1. Readers' = Readers \cup {c} /\ c \notin Readers
      BY <1>1, <2>1, <2>3 DEF Readers
    <3>2. (\E d \in Clients : child[d] = "prompting") <=> Readers # {}
      BY DEF Readers
    <3> QED
      BY <2>1, <2>3, <3>1, <3>2
  <2> QED
    BY <1>4, <2>2, <2>3 DEF ChatReceive
<1>5. ASSUME NEW c \in Clients, ChatAnswer(c)
      PROVE  /\ Readers' = Readers \ {c} /\ c \in Readers
             /\ typed # <<>> /\ typed' = Tail(typed)
             /\ UNCHANGED <<prompts, asked, crowded>>
  <2>1. /\ child[c] = "prompting" /\ typed # <<>> /\ typed' = Tail(typed)
        /\ UNCHANGED <<prompts, asked, crowded>>
        /\ child' = [child EXCEPT ![c] = "ended"] \/ child' = [child EXCEPT ![c] = "receiving"]
    BY <1>5 DEF ChatAnswer, AfterAnswer, clientVars
  <2> QED
    BY <1>1, <2>1 DEF Readers
<1>6. ASSUME AcceptAndFork
      PROVE  Readers' = Readers /\ UNCHANGED <<prompts, typed, crowded>>
  <2>1. /\ backlog # <<>> /\ backlog \in Seq(Clients) /\ UNCHANGED <<prompts, typed, crowded>>
        /\ \/ child' = [child EXCEPT ![Head(backlog)] = "receiving"]
           \/ child' = [child EXCEPT ![Head(backlog)] = "refused"]
    BY <1>6 DEF AcceptAndFork, Types, ForkTypeOK, terminalVars
  <2>2. Head(backlog) = backlog[1] /\ 1 \in 1..Len(backlog)
    BY <2>1
  <2>3. child[Head(backlog)] = "none"
    BY <2>2 DEF BacklogNew
  <2> QED
    BY <1>1, <2>1, <2>3 DEF Readers
<1>7. ASSUME OperatorTypes
      PROVE  Readers' = Readers /\ UNCHANGED <<asked, crowded>>
  BY <1>7 DEF OperatorTypes, Readers, clientVars
<1>8. ASSUME UNCHANGED forkVars
      PROVE  Readers' = Readers /\ UNCHANGED <<prompts, typed, crowded>>
  BY <1>8 DEF forkVars, Readers, terminalVars
<1> QED
  BY <1>2, <1>3, <1>4, <1>5, <1>6, <1>7, <1>8 DEF ForkNext, ForkedChild

(* Every child in gets() has a prompt the operator will answer or a line   *)
(* to read, and nobody else finds one: the terminal is never left with an  *)
(* old answer (server.c:72-102).                                           *)
THEOREM LinesMatchReaders == ForkSpec => []LineForEveryReader
<1>1. ForkInit => LineForEveryReader
  <2> SUFFICES ASSUME ForkInit
               PROVE  LineForEveryReader
    OBVIOUS
  <2>1. Readers = {} /\ prompts = <<>> /\ typed = <<>>
    BY DEF ForkInit, Readers
  <2>2. IsFiniteSet({}) /\ Cardinality({}) = 0
    BY FS_EmptySet
  <2> QED
    BY <2>1, <2>2 DEF LineForEveryReader
<1>2. ASSUME Types, BacklogNew, LineForEveryReader, [ForkNext]_forkVars
      PROVE  LineForEveryReader'
  <2>1. /\ prompts \in Seq(Clients) /\ typed \in Seq(Seq(Byte))
        /\ Len(prompts) \in Nat /\ Len(typed) \in Nat
        /\ IsFiniteSet(Readers) /\ Cardinality(Readers) = Len(prompts) + Len(typed)
    BY <1>2 DEF Types, ForkTypeOK, LineForEveryReader
  <2>2. CASE Readers' = Readers /\ UNCHANGED <<prompts, typed, crowded>>
    BY <2>1, <2>2 DEF LineForEveryReader
  <2>3. CASE OperatorTypes /\ Readers' = Readers
    <3>1. PICK len \in Lengths :
             typed' = Append(typed, TypedLine("operator", Head(prompts), asked[Head(prompts)], len))
      BY <2>3 DEF OperatorTypes
    <3> DEFINE line == TypedLine("operator", Head(prompts), asked[Head(prompts)], len)
    <3>2. prompts # <<>> /\ prompts' = Tail(prompts)
      BY <2>3 DEF OperatorTypes
    <3>3. Len(prompts') = Len(prompts) - 1
      BY <2>1, <3>2
    <3> HIDE DEF line
    <3>4. Len(typed') = Len(typed) + 1
      <4>1. typed' = Append(typed, line)
        BY <3>1 DEF line
      <4> QED
        BY <2>1, <4>1
    <3>5. Len(prompts') + Len(typed') = Len(prompts) + Len(typed)
      BY <2>1, <3>3, <3>4
    <3> QED
      BY <2>1, <2>3, <3>5 DEF LineForEveryReader
  <2>4. ASSUME NEW c \in Clients, Readers' = Readers \cup {c}, c \notin Readers,
               prompts' = Append(prompts, c), UNCHANGED typed
        PROVE  LineForEveryReader'
    <3>1. IsFiniteSet(Readers') /\ Cardinality(Readers') = Cardinality(Readers) + 1
      BY <2>1, <2>4, FS_AddElement
    <3>2. Len(prompts') = Len(prompts) + 1 /\ Len(typed') = Len(typed)
      BY <2>1, <2>4
    <3>3. Cardinality(Readers') = Len(prompts') + Len(typed')
      BY <2>1, <3>1, <3>2
    <3> QED
      BY <3>1, <3>3 DEF LineForEveryReader
  <2>5. ASSUME NEW c \in Clients, Readers' = Readers \ {c}, c \in Readers,
               typed # <<>>, typed' = Tail(typed), UNCHANGED prompts
        PROVE  LineForEveryReader'
    <3>1. IsFiniteSet(Readers') /\ Cardinality(Readers') = Cardinality(Readers) - 1
      BY <2>1, <2>5, FS_RemoveElement
    <3>2. Len(typed') = Len(typed) - 1 /\ Len(prompts') = Len(prompts)
      BY <2>1, <2>5
    <3>3. Cardinality(Readers') = Len(prompts') + Len(typed')
      BY <2>1, <3>1, <3>2
    <3> QED
      BY <3>1, <3>3 DEF LineForEveryReader
  <2> QED
    BY <1>2, <2>2, <2>3, <2>4, <2>5, ReadersByStep
<1>3. Types /\ BacklogNew /\ LineForEveryReader /\ [ForkNext]_forkVars
        => LineForEveryReader'
  BY <1>2
<1> QED
  BY <1>1, <1>3, AlwaysForkTypes, AlwaysBacklogNew, PTL DEF ForkSpec

-----------------------------------------------------------------------------
(* The answers of the chat. *)
AnswerRight(c) ==
    \A i \in 1..Len(toClient[c]) : \A j \in 1..Len(toClient[c][i]) :
        toClient[c][i][j] = TypedBy("operator", c, asked[c])

(* As long as two children have never been at the terminal.                *)
AnswersRight ==
    program = "chat" /\ ~crowded => \A c \in Clients : AnswerRight(c)

(* Who waits for an answer does not type. *)
LEMMA AskedOnce ==
    ASSUME Types, TakeTurns, NEW c \in Clients, [ForkNext]_forkVars,
           child[c] = "prompting" \/ toClient'[c] # <<>>
    PROVE  asked'[c] = asked[c]
<1>1. ASSUME NEW d \in Clients, ClientStep(d) \/ ForkedChild(d)
      PROVE  asked'[c] = asked[c]
  <2>1. CASE d # c
    BY <1>1, <2>1, OthersSame
  <2>2. CASE ClientStep(c)
    <3>1. toClient'[c] = <<>> /\ OneUnderWay(c)
      BY <2>2, ClientHasRead DEF TakeTurns
    <3>2. user[c] \in {"waiting", "ended"}
      BY <3>1 DEF OneUnderWay
    <3> QED
      BY <2>2, <3>2
      DEF ClientStep, Connect, SendLine, SendBye, Typing, ReceiveReply, Interrupt, TurnedAway
  <2>3. CASE ForkedChild(c)
    BY <2>3 DEF ForkedChild, ReceiveFails, EchoTurn, ChatReceive, ChatAnswer, clientVars
  <2> QED
    BY <1>1, <2>1, <2>2, <2>3
<1>2. ASSUME AcceptAndFork \/ OperatorTypes \/ UNCHANGED forkVars
      PROVE  asked'[c] = asked[c]
  BY <1>2, ParentLeaves
<1> QED
  BY <1>1, <1>2 DEF ForkNext

(* The line under way is always for the one reader.                        *)
LEMMA AlwaysAnswerUnderWay == ForkSpec => []AnswerUnderWay
<1>1. ForkInit => AnswerUnderWay
  BY DEF ForkInit, AnswerUnderWay, Readers
<1>2. ASSUME Types, TakeTurns, BacklogNew, LineForEveryReader, AnswerUnderWay,
             [ForkNext]_forkVars
      PROVE  AnswerUnderWay'
  <2>1. /\ prompts \in Seq(Clients) /\ typed \in Seq(Seq(Byte))
        /\ Len(prompts) \in Nat /\ Len(typed) \in Nat
        /\ IsFiniteSet(Readers) /\ Cardinality(Readers) = Len(prompts) + Len(typed)
    BY <1>2 DEF Types, ForkTypeOK, LineForEveryReader
  <2>2. ASSUME NEW c \in Readers, ~crowded
        PROVE  /\ asked'[c] = asked[c]
               /\ Readers = {c}
               /\ \A i \in 1..Len(prompts) : prompts[i] = c
               /\ \A i \in 1..Len(typed) : \E len \in Lengths :
                     typed[i] = TypedLine("operator", c, asked[c], len)
    BY <1>2, <2>2, AskedOnce DEF Readers, AnswerUnderWay
  <2>3. CASE Readers' = Readers /\ UNCHANGED <<prompts, typed, crowded>>
    BY <2>2, <2>3 DEF AnswerUnderWay
  <2>4. CASE OperatorTypes /\ Readers' = Readers /\ UNCHANGED <<asked, crowded>>
    <3> SUFFICES ASSUME NEW c \in Readers, ~crowded
                 PROVE  /\ \A i \in 1..Len(prompts') : prompts'[i] = c
                        /\ \A i \in 1..Len(typed') : \E len \in Lengths :
                              typed'[i] = TypedLine("operator", c, asked[c], len)
      BY <2>2, <2>4 DEF AnswerUnderWay
    <3>1. PICK len \in Lengths :
             typed' = Append(typed, TypedLine("operator", Head(prompts), asked[Head(prompts)], len))
      BY <2>4 DEF OperatorTypes
    <3>2. prompts # <<>> /\ prompts' = Tail(prompts)
      BY <2>4 DEF OperatorTypes
    <3>3. /\ Head(prompts) = prompts[1] /\ 1 \in 1..Len(prompts)
          /\ \A i \in 1..Len(prompts') :
                i + 1 \in 1..Len(prompts) /\ prompts'[i] = prompts[i + 1]
      BY <2>1, <3>2
    <3>4. Head(prompts) = c /\ \A i \in 1..Len(prompts') : prompts'[i] = c
      BY <2>2, <3>3
    <3> DEFINE line == TypedLine("operator", c, asked[c], len)
    <3>5. typed' = Append(typed, line) /\ line \in Seq(Byte)
      <4>1. c \in Clients /\ asked[c] \in 0..MaxMessages
        BY <1>2 DEF Types, ForkTypeOK, Readers
      <4>2. line \in Seq(Byte)
        BY <4>1, LineFacts
      <4> QED
        BY <3>1, <3>4, <4>2
    <3> HIDE DEF line
    <3>6. \A i \in 1..Len(typed') :
             \/ typed'[i] = line
             \/ i \in 1..Len(typed) /\ typed'[i] = typed[i]
      BY <2>1, <3>5
    <3>7. \A i \in 1..Len(typed') : \E l \in Lengths :
              typed'[i] = TypedLine("operator", c, asked[c], l)
      BY <2>2, <3>6 DEF line
    <3> QED
      BY <3>4, <3>7
  <2>5. ASSUME NEW c \in Clients, Readers' = Readers \cup {c},
               prompts' = Append(prompts, c), UNCHANGED typed,
               crowded' = (crowded \/ Readers # {})
        PROVE  AnswerUnderWay'
    <3> SUFFICES ASSUME ~crowded'
                 PROVE  /\ Readers' = {c} /\ \A i \in 1..Len(prompts') : prompts'[i] = c
                        /\ Len(typed') = 0
      BY DEF AnswerUnderWay
    <3>1. Readers = {} /\ Readers' = {c}
      BY <2>5
    <3>2. Len(prompts) + Len(typed) = 0
      BY <2>1, <3>1, FS_EmptySet
    <3>3. Len(prompts) = 0 /\ Len(typed) = 0
      BY <2>1, <3>2
    <3>4. \A i \in 1..Len(prompts') : prompts'[i] = c
      BY <2>1, <2>5, <3>3
    <3> QED
      BY <2>5, <3>1, <3>3, <3>4
  <2>6. ASSUME NEW c \in Clients, Readers' = Readers \ {c}, c \in Readers,
               UNCHANGED crowded
        PROVE  AnswerUnderWay'
    BY <2>2, <2>6 DEF AnswerUnderWay
  <2> QED
    BY <1>2, <2>3, <2>4, <2>5, <2>6, ReadersByStep
<1>3. /\ Types /\ TakeTurns /\ BacklogNew /\ LineForEveryReader /\ AnswerUnderWay
      /\ [ForkNext]_forkVars
      => AnswerUnderWay'
  BY <1>2
<1> QED
  BY <1>1, <1>3, AlwaysForkTypes, AlwaysTakeTurns, AlwaysBacklogNew, LinesMatchReaders, PTL
  DEF ForkSpec

(* The child that reads the terminal sends its client the line that is for *)
(* this client, as long as it has been the only one.                       *)
LEMMA ChatAnswerRight ==
    ASSUME Types, TakeTurns, AnswerUnderWay, NEW c \in Clients, ChatAnswer(c), ~crowded
    PROVE  AnswerRight(c)'
<1>1. /\ typed # <<>> /\ Sends(c, Head(typed)) /\ child[c] = "prompting"
      /\ UNCHANGED asked /\ typed \in Seq(Seq(Byte))
  BY DEF ChatAnswer, clientVars, Types, ForkTypeOK
<1> DEFINE line == Head(typed)
<1>2. line = typed[1] /\ 1 \in 1..Len(typed) /\ line \in Seq(Byte)
  BY <1>1
<1>3. PICK len \in Lengths : line = TypedLine("operator", c, asked[c], len)
  BY <1>1, <1>2 DEF AnswerUnderWay, Readers
<1>4. \A j \in 1..Len(line) : line[j] = TypedBy("operator", c, asked[c])
  <2>1. asked[c] \in 0..MaxMessages
    BY DEF Types, ForkTypeOK
  <2> QED
    BY <1>3, <2>1, LineFacts
<1>5. Sends(c, line) /\ toClient[c] = <<>>
  BY <1>1 DEF TakeTurns, OneUnderWay
<1> HIDE DEF line
<1>6. toClient'[c] = <<>> \/ toClient'[c] = <<line>>
  <2>1. toClient'[c] = toClient[c] \/ toClient'[c] = Append(toClient[c], line)
    BY <1>2, <1>5, SendsFacts
  <2> QED
    BY <1>5, <2>1, AppendEmpty, Zenon
<1>7. \A i \in 1..Len(toClient'[c]) : toClient'[c][i] = line
  BY <1>6
<1>8. \A i \in 1..Len(toClient'[c]) : \A j \in 1..Len(toClient'[c][i]) :
          toClient'[c][i][j] = TypedBy("operator", c, asked[c])
  BY <1>4, <1>7, Zenon
<1>9. asked'[c] = asked[c]
  BY <1>1
<1> QED
  BY <1>8, <1>9, Zenon DEF AnswerRight

(* As long as no two children of the chat were at the terminal at a time,  *)
(* a client gets the answer to its own last message (server.c:72-102).     *)
THEOREM AnswersReachTheirClient == ForkSpec => []AnswersTheirClient
<1>1. ForkInit => AnswersRight
  BY DEF ForkInit, AnswersRight, AnswerRight
<1>2. ASSUME Types, TakeTurns, BacklogNew, AnswerUnderWay, AnswersRight,
             [ForkNext]_forkVars
      PROVE  AnswersRight'
  <2> SUFFICES ASSUME program' = "chat", ~crowded', NEW c \in Clients
               PROVE  AnswerRight(c)'
    BY DEF AnswersRight
  <2>1. program = "chat" /\ ~crowded
    <3>1. ~crowded
      BY <1>2, ReadersByStep
    <3>2. UNCHANGED program
      BY <1>2, ParentLeaves
      DEF ForkNext, ClientStep, ForkedChild, Connect, SendLine, SendBye, Typing, ReceiveReply,
          Interrupt, TurnedAway, ReceiveFails, EchoTurn, ChatReceive, ChatAnswer
    <3> QED
      BY <3>1, <3>2
  <2>2. AnswerRight(c)
    BY <1>2, <2>1 DEF AnswersRight
  <2>3. CASE UNCHANGED toClient \/ toClient'[c] = toClient[c]
    <3>1. CASE toClient'[c] = <<>>
      BY <3>1 DEF AnswerRight
    <3>2. CASE toClient'[c] # <<>>
      <4>1. asked'[c] = asked[c]
        BY <1>2, <3>2, AskedOnce
      <4> QED
        BY <2>2, <2>3, <4>1 DEF AnswerRight
    <3> QED
      BY <3>1, <3>2
  <2>4. CASE ClientStep(c)
    <3>1. toClient'[c] = <<>>
      BY <1>2, <2>4, ClientHasRead DEF TakeTurns
    <3> QED
      BY <3>1 DEF AnswerRight
  <2>5. CASE ChatAnswer(c)
    BY <1>2, <2>1, <2>5, ChatAnswerRight
  <2>6. CASE ReceiveFails(c) \/ ChatReceive(c)
    BY <2>3, <2>6 DEF ReceiveFails, ChatReceive
  <2>7. ~EchoTurn(c)
    BY <2>1 DEF EchoTurn
  <2>8. ASSUME NEW d \in Clients, d # c, ClientStep(d) \/ ForkedChild(d)
        PROVE  AnswerRight(c)'
    BY <1>2, <2>3, <2>8, OthersSame
  <2>9. CASE AcceptAndFork \/ OperatorTypes \/ UNCHANGED forkVars
    BY <1>2, <2>3, <2>9, ParentLeaves
  <2> QED
    BY <1>2, <2>4, <2>5, <2>6, <2>7, <2>8, <2>9 DEF ForkNext, ForkedChild
<1>3. /\ Types /\ TakeTurns /\ BacklogNew /\ AnswerUnderWay /\ AnswersRight
      /\ [ForkNext]_forkVars
      => AnswersRight'
  BY <1>2
<1>4. AnswersRight => AnswersTheirClient
  BY DEF AnswersRight, AnswerRight, AnswersTheirClient
<1> QED
  BY <1>1, <1>3, <1>4, AlwaysForkTypes, AlwaysTakeTurns, AlwaysBacklogNew,
     AlwaysAnswerUnderWay, PTL
  DEF ForkSpec
=============================================================================
