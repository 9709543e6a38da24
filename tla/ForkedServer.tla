----------------------------- MODULE ForkedServer -----------------------------
(***************************************************************************)
(* The two concurrent servers with a client each: the chat of              *)
(* lab3/simultaneous_connect_echo, whose operator types the answers, and   *)
(* the echo of lab5.  Both parents fork a child for every connection and   *)
(* never wait for one.  A client sends a line and receives one, in turn.   *)
(* The children of the chat read their answers from the one terminal they  *)
(* inherit from the parent.                                                *)
(*                                                                         *)
(* A text is a sequence of bytes; a byte tells who typed it, for a client  *)
(* or about one, and in which message.  No line is longer than the buffer  *)
(* it is read into.                                                        *)
(***************************************************************************)
EXTENDS TcpSocket

CONSTANTS Clients,
          BUFFERSIZE,
          FreeProcesses,   \* how many processes the user may still start
          MaxMessages      \* bound on the lines typed into a client

ASSUME BufferAssumption == BUFFERSIZE \in Nat \ {0}
ASSUME ProcessAssumption == FreeProcesses \subseteq Nat
ASSUME MessagesAssumption == MaxMessages \in Nat

VARIABLES program,    \* which server runs: "chat" or "echo"
          parentMsg,  \* msg of the parent, which every child inherits
          processes,  \* how many more times fork() succeeds
          backlog,    \* the clients not yet accepted, in order
          user,       \* per client: "absent", "typing", "waiting" or "ended"
          asked,      \* per client: how many lines were typed
          lastMsg,    \* per client: the last of them
          toServer, toClient, connection,   \* per client: its connection
          child,      \* per client: "none", "receiving", "prompting" (in gets()),
                      \* "refused" (fork() failed) or "ended"
          msg,        \* per client: its child's buffer
          prompts,    \* the clients whose child has asked for an answer
          typed,      \* the operator's lines not yet read
          emptyLine,  \* history, per client: its child has read an empty line
          crowded     \* history: two children were at gets() at a time

clientVars == <<user, asked, lastMsg>>
terminalVars == <<prompts, typed, crowded>>
forkVars == <<program, parentMsg, processes, backlog, clientVars, toServer, toClient,
          connection, child, msg, terminalVars, emptyLine>>

NoOne == "no one"
Byte == [by : {"client", "operator", "bye", "stack", "zero"},
         about : Clients \cup {NoOne}, n : 0..MaxMessages]
TypedBy(who, c, k) == [by |-> who, about |-> c, n |-> k]
Zero == TypedBy("zero", NoOne, 0)
Unknown == TypedBy("stack", NoOne, 0)
ByeLine == <<TypedBy("bye", NoOne, 0)>>

Lengths == 0 .. BUFFERSIZE - 1
TypedLine(who, c, k, len) == [i \in 1..len |-> TypedBy(who, c, k)]
Buffer == [1..BUFFERSIZE -> Byte]
EmptyBuffer == [i \in 1..BUFFERSIZE |-> Zero]

ForkTypeOK ==
    /\ program \in {"chat", "echo"} /\ parentMsg \in Buffer
    /\ processes \in Nat
    /\ backlog \in Seq(Clients) /\ prompts \in Seq(Clients)
    /\ user \in [Clients -> {"absent", "typing", "waiting", "ended"}]
    /\ asked \in [Clients -> 0..MaxMessages]
    /\ lastMsg \in [Clients -> Seq(Byte)]
    /\ toServer \in [Clients -> Seq(Seq(Byte))]
    /\ toClient \in [Clients -> Seq(Seq(Byte))]
    /\ connection \in [Clients -> Connection]
    /\ child \in [Clients -> {"none", "receiving", "prompting", "refused", "ended"}]
    /\ msg \in [Clients -> Buffer]
    /\ typed \in Seq(Seq(Byte))
    /\ emptyLine \in [Clients -> BOOLEAN] /\ crowded \in BOOLEAN

(* The chat's parent clears msg, the echo's leaves it uninitialised.  The  *)
(* model ASSUMES that the last byte of it is zero and the others are zero  *)
(* or nobody's.  The code does not see to that: without any terminator     *)
(* strlen() would read past msg, which is undefined and not modelled.      *)
ForkInit ==
    /\ \/ program = "chat" /\ parentMsg = EmptyBuffer
       \/ /\ program = "echo"
          /\ parentMsg \in [1..BUFFERSIZE -> {Zero, Unknown}]
          /\ parentMsg[BUFFERSIZE] = Zero
    /\ processes \in FreeProcesses /\ backlog = <<>>
    /\ user = [c \in Clients |-> "absent"] /\ asked = [c \in Clients |-> 0]
    /\ lastMsg = [c \in Clients |-> <<>>]
    /\ toServer = [c \in Clients |-> <<>>] /\ toClient = [c \in Clients |-> <<>>]
    /\ connection = [c \in Clients |-> "open"]
    /\ child = [c \in Clients |-> "none"]
    /\ msg = [c \in Clients |-> EmptyBuffer]
    /\ prompts = <<>> /\ typed = <<>> /\ crowded = FALSE
    /\ emptyLine = [c \in Clients |-> FALSE]

-----------------------------------------------------------------------------
(* The client programs. *)
Connect(c) ==
    /\ user[c] = "absent"
    /\ user' = [user EXCEPT ![c] = "typing"]
    /\ backlog' = Append(backlog, c)
    /\ UNCHANGED <<program, parentMsg, processes, asked, lastMsg, toServer,
                   toClient, connection, child, msg, terminalVars, emptyLine>>

(* gets() and send(): an empty line sends nothing, and nobody receives     *)
(* what is sent after the parent has closed the connection.                *)
Typing(c, m) ==
    /\ user[c] = "typing" /\ asked[c] < MaxMessages
    /\ asked' = [asked EXCEPT ![c] = @ + 1]
    /\ toServer' = IF m = <<>> \/ child[c] = "refused" THEN toServer
                   ELSE [toServer EXCEPT ![c] = Append(@, m)]
    /\ UNCHANGED <<program, parentMsg, processes, backlog, child, msg, terminalVars,
                   emptyLine>>

SendLine(c) ==
    /\ \E len \in Lengths :
          LET m == TypedLine("client", c, asked[c] + 1, len) IN
             Typing(c, m) /\ lastMsg' = [lastMsg EXCEPT ![c] = m]
    /\ user' = [user EXCEPT ![c] = "waiting"]
    /\ UNCHANGED <<toClient, connection>>

(* The client ends; its connection is closed with what it has not read.    *)
Ends(c) ==
    /\ user' = [user EXCEPT ![c] = "ended"]
    /\ connection' = [connection EXCEPT ![c] = AfterClose(toClient[c])]
    /\ toClient' = [toClient EXCEPT ![c] = <<>>]
    /\ lastMsg' = [lastMsg EXCEPT ![c] = <<>>]

(* The chat's client ends after "bye". *)
SendBye(c) == program = "chat" /\ Typing(c, ByeLine) /\ Ends(c)

ReceiveReply(c) ==
    /\ user[c] = "waiting" /\ toClient[c] # <<>>
    /\ toClient' = [toClient EXCEPT ![c] = Tail(@)]
    /\ user' = [user EXCEPT ![c] = "typing"]
    /\ UNCHANGED <<program, parentMsg, processes, backlog, asked, lastMsg, toServer,
                   connection, child, msg, terminalVars, emptyLine>>

(* The user interrupts the client; or it was turned away, goes on, and its *)
(* send() fails.                                                           *)
Interrupt(c) ==
    /\ user[c] \in {"typing", "waiting"} /\ Ends(c)
    /\ UNCHANGED <<program, parentMsg, processes, backlog, asked, toServer, child,
                   msg, terminalVars, emptyLine>>

(* The parent has closed the connection: recv() fails, or returns 0 and    *)
(* the client goes on.                                                     *)
TurnedAway(c) ==
    /\ child[c] = "refused" /\ user[c] = "waiting"
    /\ \/ Ends(c)
       \/ /\ toClient[c] = <<>> /\ user' = [user EXCEPT ![c] = "typing"]
          /\ UNCHANGED <<lastMsg, toClient, connection>>
    /\ UNCHANGED <<program, parentMsg, processes, backlog, asked, toServer, child,
                   msg, terminalVars, emptyLine>>

-----------------------------------------------------------------------------
(* The parent accepts and forks, closes its copy of the connection, and    *)
(* accepts again, for ever: terminate is set in children only.  A child    *)
(* that ends is not waited for and keeps its process.  If there is no      *)
(* child, what the client has sent is lost with the connection.            *)
AcceptAndFork ==
    /\ backlog # <<>>
    /\ LET c == Head(backlog) IN
          IF processes > 0
          THEN /\ child' = [child EXCEPT ![c] = "receiving"]
               /\ msg' = [msg EXCEPT ![c] = parentMsg]
               /\ processes' = processes - 1
               /\ UNCHANGED toServer
          ELSE /\ child' = [child EXCEPT ![c] = "refused"]
               /\ toServer' = [toServer EXCEPT ![c] = <<>>]
               /\ UNCHANGED <<msg, processes>>
    /\ backlog' = Tail(backlog)
    /\ UNCHANGED <<program, parentMsg, clientVars, toClient, connection,
                   terminalVars, emptyLine>>

-----------------------------------------------------------------------------
(* What the children share.                                                *)
(* Plausible bug: the message is put one byte too far to the front. *)
ReceivedOffByOne(buf, m) ==
    IF m = <<>> THEN buf ELSE m \o SubSeq(buf, Len(m), BUFFERSIZE)

(* recv() into a buffer: what is behind the message stays. *)
Received(buf, m) == m \o SubSeq(buf, Len(m) + 1, BUFFERSIZE)

(* Plausible bug: strlen() - 1 bytes are sent. *)
TextButLast(buf) ==
    LET end == CHOOSE i \in 1..Len(buf) :
                  buf[i] = Zero /\ \A j \in 1 .. i - 1 : buf[j] # Zero
    IN  SubSeq(buf, 1, end - 2)

(* The bytes in front of the terminator, strlen() of them. *)
Text(buf) ==
    LET end == CHOOSE i \in 1..Len(buf) :
                  buf[i] = Zero /\ \A j \in 1 .. i - 1 : buf[j] # Zero
    IN  SubSeq(buf, 1, end - 1)

(* recv() of the child of c returns m, or 0 bytes. *)
Receives(c, m) ==
    /\ child[c] = "receiving"
    /\ \/ /\ toServer[c] # <<>> /\ m = Head(toServer[c])
          /\ toServer' = [toServer EXCEPT ![c] = Tail(@)]
       \/ /\ ReturnsZero(toServer[c], connection[c]) /\ m = <<>>
          /\ UNCHANGED toServer

(* What the child of c can receive. *)
Incoming(c) == {<<>>} \cup {toServer[c][i] : i \in 1..Len(toServer[c])}

(* send() of text by the child of c; of an empty one nothing is sent.      *)
Sends(c, text) ==
    /\ toClient' = IF Arrives(connection[c]) /\ text # <<>>
                   THEN [toClient EXCEPT ![c] = Append(@, text)] ELSE toClient
    /\ connection' = IF text = <<>> THEN connection
                     ELSE [connection EXCEPT ![c] = AfterSend(@)]

(* recv() fails: the child exits. *)
ReceiveFails(c) ==
    /\ child[c] = "receiving" /\ RecvFails(toServer[c], connection[c])
    /\ child' = [child EXCEPT ![c] = "ended"]
    /\ UNCHANGED <<program, parentMsg, processes, backlog, clientVars, toServer,
                   toClient, connection, msg, terminalVars, emptyLine>>

-----------------------------------------------------------------------------
(* Plausible bugs: the child echoes one message only; it sends as many     *)
(* bytes as it received.                                                   *)
AfterEchoOnce(c) == "ended"
EchoTextReceived(c, m) == IF m = <<>> THEN <<>> ELSE Text(Received(msg[c], m))

AfterEcho(c) == IF SendFails(connection[c]) THEN "ended" ELSE "receiving"
EchoText(c, m) == Text(Received(msg[c], m))

(* One turn of an echo child.  Its buffer is never cleared.  When the      *)
(* client has gone it sends the buffer again.                              *)
EchoTurn(c) ==
    /\ program = "echo"
    /\ \E m \in Incoming(c) :
          /\ Receives(c, m)
          /\ msg' = [msg EXCEPT ![c] = Received(@, m)]
          /\ Sends(c, EchoText(c, m))
    /\ child' = [child EXCEPT ![c] = AfterEcho(c)]
    /\ UNCHANGED <<program, parentMsg, processes, backlog, clientVars, terminalVars,
                   emptyLine>>

-----------------------------------------------------------------------------
(* A chat child has cleared its buffer and receives.  "bye" ends it;       *)
(* anything else, even nothing, makes it ask for an answer.                *)
ChatReceive(c) ==
    /\ program = "chat"
    /\ \E m \in Incoming(c) :
          /\ Receives(c, m)
          /\ IF m = ByeLine
             THEN /\ child' = [child EXCEPT ![c] = "ended"]
                  /\ UNCHANGED <<prompts, crowded>>
             ELSE /\ child' = [child EXCEPT ![c] = "prompting"]
                  /\ prompts' = Append(prompts, c)
                  /\ crowded' = (crowded \/ \E d \in Clients : child[d] = "prompting")
    /\ UNCHANGED <<program, parentMsg, processes, backlog, clientVars, toClient,
                   connection, msg, typed, emptyLine>>

(* The operator answers the prompts in their order. *)
OperatorTypes ==
    /\ prompts # <<>>
    /\ \E len \in Lengths :
          typed' = Append(typed,
                          TypedLine("operator", Head(prompts), asked[Head(prompts)], len))
    /\ prompts' = Tail(prompts)
    /\ UNCHANGED <<program, parentMsg, processes, backlog, clientVars, toServer,
                   toClient, connection, child, msg, crowded, emptyLine>>

(* Plausible bug: the child goes on asking for lines. *)
AfterAnswerPrompting(c) ==
    UNCHANGED child /\ prompts' = Append(prompts, c)

AfterAnswer(c) ==
    /\ child' = [child EXCEPT ![c] = IF SendFails(connection[c])
                                     THEN "ended" ELSE "receiving"]
    /\ UNCHANGED prompts

(* A child in gets() reads the next line, whichever prompt it answers, and *)
(* sends it.                                                               *)
ChatAnswer(c) ==
    /\ child[c] = "prompting" /\ typed # <<>>
    /\ typed' = Tail(typed)
    /\ emptyLine' = [emptyLine EXCEPT ![c] = @ \/ Head(typed) = <<>>]
    /\ Sends(c, Head(typed))
    /\ AfterAnswer(c)
    /\ UNCHANGED <<program, parentMsg, processes, backlog, clientVars, toServer, msg,
                   crowded>>

ClientStep(c) ==
    Connect(c) \/ SendLine(c) \/ SendBye(c) \/ ReceiveReply(c) \/ Interrupt(c)
    \/ TurnedAway(c)

ForkedChild(c) == ReceiveFails(c) \/ EchoTurn(c) \/ ChatReceive(c) \/ ChatAnswer(c)

ForkNext ==
    \/ \E c \in Clients : ClientStep(c) \/ ForkedChild(c)
    \/ AcceptAndFork \/ OperatorTypes

ForkSpec == ForkInit /\ [][ForkNext]_forkVars

(* No program skips a turn, the operator answers every prompt, and no      *)
(* reader of the terminal is passed over for ever.  Nothing is assumed of  *)
(* the users of the clients.                                               *)
ForkFairness ==
    /\ \A c \in Clients :
          /\ WF_forkVars(ReceiveReply(c)) /\ WF_forkVars(TurnedAway(c))
          /\ WF_forkVars(ForkedChild(c)) /\ SF_forkVars(ChatAnswer(c))
    /\ WF_forkVars(AcceptAndFork) /\ WF_forkVars(OperatorTypes)

ForkLiveSpec == ForkSpec /\ ForkFairness

-----------------------------------------------------------------------------
(* The text is the client's last line and then older ones. *)
KeepsOlder(c, echo) ==
    /\ Len(echo) >= Len(lastMsg[c])
    /\ SubSeq(echo, 1, Len(lastMsg[c])) = lastMsg[c]
    /\ \A i \in 1..Len(echo) :
          echo[i] = Unknown \/ \E k \in 1..asked[c] :
                                   echo[i] = TypedBy("client", c, k)
    /\ \A i \in 1 .. Len(echo) - 1 : echo[i].n >= echo[i + 1].n

(* An echo is the client's line and, behind it, what is left of its        *)
(* earlier lines, the older the farther behind, and last of the parent's   *)
(* memory.  Nothing of another client's is in it, although every child     *)
(* works in a copy of the parent's buffer (lab5/server.c:47,62-78).        *)
EchoKeepsOlder ==
    program = "echo" =>
        \A c \in Clients : toClient[c] # <<>> => KeepsOlder(c, Head(toClient[c]))

(* As long as no two children were waiting for a line of the operator at a *)
(* time, a client gets the answer to its own last message, although all    *)
(* children read the same terminal (server.c:72-102).                      *)
AnswersTheirClient ==
    program = "chat" /\ ~crowded =>
        \A c \in Clients : \A i \in 1..Len(toClient[c]) :
            \A j \in 1..Len(toClient[c][i]) :
                toClient[c][i][j] = TypedBy("operator", c, asked[c])

(* A client that has sent something does not wait for ever: it is          *)
(* answered, or turned away when no process is left, unless its child      *)
(* reads an empty line.  That the line may be meant for another one does   *)
(* not matter (server.c:55-116; lab5/server.c:51-88).                      *)
EveryoneAnswered ==
    \A c \in Clients :
        user[c] = "waiting" /\ lastMsg[c] # <<>> ~> user[c] # "waiting" \/ emptyLine[c]

(* The echo child of a client that has gone ends, although it does not     *)
(* look for the end of the connection: its second send() after it fails.   *)
(* But if its buffer is empty it sends nothing, and loops for ever         *)
(* (lab5/server.c:66-84).                                                  *)
EchoChildrenEnd ==
    \A c \in Clients :
        program = "echo" /\ child[c] = "receiving" /\ ~Arrives(connection[c])
            ~> child[c] = "ended" \/ Text(msg[c]) = <<>>
=============================================================================
