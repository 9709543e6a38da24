---------------------------- MODULE KeyValueStore ----------------------------
(***************************************************************************)
(* The key-value server of lab5.  server_key.c forks a child for every     *)
(* connection; the children share the files database.txt and temp.txt and  *)
(* use no lock.  put appends a line, get reads up to the first line of its *)
(* key, del copies all other lines to temp.txt and renames that file to    *)
(* database.txt.                                                           *)
(*                                                                         *)
(* One action is one operation on the files, with the reply that follows   *)
(* it.  A name leads to a file, a number; a child that has opened a file   *)
(* keeps it when the name is given to another one.  A line is the pair it  *)
(* holds.  Lines differ in length: what is left of old lines when a file   *)
(* is overwritten may start with a piece of one, Torn.                     *)
(***************************************************************************)
EXTENDS Integers, Sequences, FiniteSets

CONSTANTS Child,         \* the clients, each with the child that serves it
          Key, Value,
          None,          \* neither a key nor a value
          InitialLines,  \* what database.txt holds, if it exists
          MAXPROC,       \* how many processes the system gives to the server
          MaxCommands    \* bound: commands in all

Torn == [key |-> None, value |-> None]
Pair == [key : Key, value : Value]
Line == Pair \cup {Torn}

ASSUME ChildAssumption == IsFiniteSet(Child)
ASSUME NoneAssumption == None \notin Key \cup Value
ASSUME InitialAssumption == InitialLines \in Seq(Pair)
ASSUME ProcAssumption == MAXPROC \in Nat \ {0} /\ MaxCommands \in Nat

VARIABLES pc,        \* what the child does, or what ended it
          key, value,  \* of the command the child executes
          fp,        \* the file the child has opened as database.txt
          tfp,       \* the file a del has opened as temp.txt
          lines,     \* the lines a del has read and keeps
          pos,       \* how many lines a del has read
          reply,     \* the answer to the last get of the client
          database,  \* the file named database.txt, 0 if there is none
          temp,      \* the file named temp.txt, 0 if there is none
          files,     \* the contents of the files, by number
          procs,     \* processes of the server, ended ones included
          issued,    \* commands so far
          byes,      \* history: the clients that have said bye
          deleted,   \* history: the keys some del was given
          pairs,     \* history: the store, changed at once by each command
          seen,      \* history: the values of the key since the get started
          raced      \* history: a del overlapped another put or del

command == <<key, value>>
opened == <<fp, tfp>>
copy == <<lines, pos>>
names == <<database, temp>>
system == <<procs, issued, byes>>
history == <<pairs, seen, raced, deleted>>
vars == <<pc, command, opened, copy, reply, names, files, system, history>>

Copying == {"del_opened", "del_copying", "del_copied", "del_closed"}
Writing == Copying \cup {"put_opened"}
Answer == Value \cup {None}

TypeOK ==
    /\ pc \in [Child -> Writing \cup
          {"connecting", "recv", "get_opened", "unanswered", "forking",
           "refused", "gone", "no_file", "bad_line", "bad_copy", "no_temp"}]
    /\ key \in [Child -> Key \cup {None}]
    /\ value \in [Child -> Value \cup {None}]
    /\ files \in Seq(Seq(Line))
    /\ fp \in [Child -> 0..Len(files)] /\ tfp \in [Child -> 0..Len(files)]
    /\ lines \in [Child -> Seq(Line)] /\ pos \in [Child -> Nat]
    /\ reply \in [Child -> Answer]
    /\ database \in 0..Len(files) /\ temp \in 0..Len(files)
    /\ procs \in 1..MAXPROC /\ issued \in 0..MaxCommands
    /\ byes \subseteq Child /\ deleted \subseteq Key
    /\ pairs \in Seq(Pair)
    /\ seen \in [Child -> SUBSET Answer]
    /\ raced \in BOOLEAN

(* The lines of other keys than these, in their order. *)
OtherLines(s, keys) ==
    LET upTo[i \in 0..Len(s)] ==
            IF i = 0 THEN <<>>
            ELSE IF s[i].key \in keys THEN upTo[i - 1]
            ELSE Append(upTo[i - 1], s[i])
    IN  upTo[Len(s)]

Without(s, k) == OtherLines(s, {k})

(* The value in the first line of the key; None stands for KEY NOT FOUND. *)
IsFirst(s, k, i) == s[i].key = k /\ \A j \in 1..i - 1 : s[j].key # k
Lookup(s, k) ==
    IF \E i \in 1..Len(s) : s[i].key = k
    THEN s[CHOOSE i \in 1..Len(s) : IsFirst(s, k, i)].value
    ELSE None

Init ==
    /\ pc = [c \in Child |-> "connecting"]
    /\ key = [c \in Child |-> None] /\ value = [c \in Child |-> None]
    /\ fp = [c \in Child |-> 0] /\ tfp = [c \in Child |-> 0]
    /\ lines = [c \in Child |-> <<>>] /\ pos = [c \in Child |-> 0]
    /\ reply = [c \in Child |-> None]
    /\ \/ database = 0 /\ files = <<>> /\ pairs = <<>>
       \/ database = 1 /\ files = <<InitialLines>> /\ pairs = InitialLines
    /\ temp = 0
    /\ procs = 1 /\ issued = 0 /\ byes = {} /\ deleted = {}
    /\ seen = [c \in Child |-> {}] /\ raced = FALSE

-----------------------------------------------------------------------------
(* The parent accepts the connection and forks.  No process is ever waited *)
(* for, so that none leaves the process table.  When fork() fails the      *)
(* parent closes the connection.                                           *)
Accept(c) ==
    /\ pc[c] = "connecting"
    /\ IF procs < MAXPROC
       THEN pc' = [pc EXCEPT ![c] = "recv"] /\ procs' = procs + 1
       ELSE pc' = [pc EXCEPT ![c] = "refused"] /\ UNCHANGED procs
    /\ UNCHANGED <<command, opened, copy, reply, names, files, issued, byes,
                   history>>

(* A command arrives that uses the files. *)
Command(c, k) ==
    /\ pc[c] = "recv" /\ issued < MaxCommands
    /\ issued' = issued + 1
    /\ key' = [key EXCEPT ![c] = k]
    /\ UNCHANGED <<tfp, reply, temp, procs, byes, pairs>>

Others(c, states) == \E d \in Child \ {c} : pc[d] \in states

(* put: fopen(DATABASE_FILE, "a") makes the file if there is none. *)
PutOpen(c, k, v) ==
    /\ Command(c, k)
    /\ pc' = [pc EXCEPT ![c] = "put_opened"]
    /\ value' = [value EXCEPT ![c] = v]
    /\ IF database = 0
       THEN files' = Append(files, <<>>) /\ database' = Len(files) + 1
       ELSE UNCHANGED <<files, database>>
    /\ fp' = [fp EXCEPT ![c] = database']
    /\ raced' = (raced \/ Others(c, Copying))
    /\ UNCHANGED <<copy, seen, deleted>>

(* A get that is under way may answer with what its key is now. *)
NowSeen ==
    seen' = [c \in Child |->
                IF pc[c] = "get_opened"
                THEN seen[c] \cup {Lookup(pairs', key[c])} ELSE seen[c]]

(* Plausible bug: only the value is written. *)
WithValueOnly(s, l) == Append(s, l.value)

WithNewLine(s, l) == Append(s, l)

(* fprintf(), fflush() and the reply "Pair added to database".  The file   *)
(* stays open.                                                             *)
PutWrite(c) ==
    /\ pc[c] = "put_opened"
    /\ LET new == [key |-> key[c], value |-> value[c]] IN
          /\ files' = [files EXCEPT ![fp[c]] = WithNewLine(@, new)]
          /\ pairs' = Append(pairs, new)
    /\ pc' = [pc EXCEPT ![c] = "recv"]
    /\ NowSeen
    /\ UNCHANGED <<command, opened, copy, reply, names, system, raced, deleted>>

(* get: fopen("database.txt", "r"); the child ends if there is no file. *)
GetOpen(c, k) ==
    /\ Command(c, k)
    /\ pc' = [pc EXCEPT ![c] = IF database = 0 THEN "no_file" ELSE "get_opened"]
    /\ fp' = [fp EXCEPT ![c] = database]
    /\ seen' = [seen EXCEPT ![c] = {Lookup(pairs, k)}]
    /\ UNCHANGED <<value, copy, database, files, raced, deleted>>

TornInFront(s, k) ==
    \E i \in 1..Len(s) : s[i] = Torn /\ \A j \in 1..i - 1 : s[j].key # k

(* Plausible bug: the last line of the key is sent. *)
FoundLast(s, k) ==
    IF \E i \in 1..Len(s) : s[i].key = k
    THEN s[CHOOSE i \in 1..Len(s) :
              s[i].key = k /\ \A j \in i + 1 .. Len(s) : s[j].key # k].value
    ELSE None

Found(s, k) == Lookup(s, k)

(* The lines are read in turn up to the first one of the key, and its      *)
(* value is the reply.  The child ends at a line that is not a pair; the   *)
(* piece of a line may also look like a pair of another key, or of this.   *)
GetReply(c) ==
    /\ pc[c] = "get_opened"
    /\ LET s == files[fp[c]] IN
          \/ /\ pc' = [pc EXCEPT ![c] = "recv"]
             /\ reply' = [reply EXCEPT ![c] = Found(s, key[c])]
          \/ /\ TornInFront(s, key[c])
             /\ pc' = [pc EXCEPT ![c] = "recv"]
             /\ \E v \in Value : reply' = [reply EXCEPT ![c] = v]
          \/ /\ TornInFront(s, key[c])
             /\ pc' = [pc EXCEPT ![c] = "bad_line"]
             /\ UNCHANGED reply
    /\ UNCHANGED <<command, opened, copy, names, files, system, history>>

-----------------------------------------------------------------------------
(* del: fopen(DATABASE_FILE, "r"); the child ends if there is no file. *)
DelOpen(c, k) ==
    /\ Command(c, k)
    /\ pc' = [pc EXCEPT ![c] = IF database = 0 THEN "no_file" ELSE "del_opened"]
    /\ fp' = [fp EXCEPT ![c] = database]
    /\ lines' = [lines EXCEPT ![c] = <<>>] /\ pos' = [pos EXCEPT ![c] = 0]
    /\ raced' = (raced \/ (database # 0 /\ Others(c, Writing)))
    /\ deleted' = deleted \cup {k}
    /\ UNCHANGED <<value, database, files, seen>>

(* fopen(TEMP_FILE, "w") makes the file, or empties the one there is: the  *)
(* one of another child.                                                   *)
DelOpenTemp(c) ==
    /\ pc[c] = "del_opened"
    /\ pc' = [pc EXCEPT ![c] = "del_copying"]
    /\ IF temp = 0
       THEN files' = Append(files, <<>>) /\ temp' = Len(files) + 1
       ELSE files' = [files EXCEPT ![temp] = <<>>] /\ UNCHANGED temp
    /\ tfp' = [tfp EXCEPT ![c] = temp']
    /\ UNCHANGED <<command, fp, copy, reply, database, system, history>>

(* New lines written over the beginning of a file: some of the old ones    *)
(* may be left behind them, the first of those perhaps in part.            *)
Overwritten(old, new) ==
    IF new = <<>> \/ old = <<>> THEN {IF new = <<>> THEN old ELSE new}
    ELSE UNION {LET rest == SubSeq(old, i, Len(old)) IN
                {new \o rest, new \o <<Torn>> \o rest} : i \in 2..Len(old) + 1}

(* The lines kept go to the beginning of temp.txt when it is closed, or    *)
(* when the child exits with it open.                                      *)
Flush(c, kept) ==
    \E s \in Overwritten(files[tfp[c]], kept) : files' = [files EXCEPT ![tfp[c]] = s]

(* Plausible bug: only the first line of the key is left out. *)
KeptOthersAndRepeated(s, keys) ==
    SelectSeq(s, LAMBDA l : l.key \notin keys \/ l # s[1])

Kept(s, keys) == OtherLines(s, keys)

(* The lines there are are read; at the end of the file the loop ends.  A  *)
(* line that does not start with a number ends the child, and exit()       *)
(* flushes what it has kept; the piece of a line may also look like a line *)
(* of the key.                                                             *)
DelRead(c) ==
    /\ pc[c] = "del_copying" /\ pos[c] < Len(files[fp[c]])
    /\ LET s == SubSeq(files[fp[c]], pos[c] + 1, Len(files[fp[c]])) IN
       \E keys \in {{key[c]}, {key[c], None}} :
          \/ /\ lines' = [lines EXCEPT ![c] = @ \o Kept(s, keys)]
             /\ pos' = [pos EXCEPT ![c] = Len(files[fp[c]])]
             /\ UNCHANGED <<pc, files>>
          \/ /\ \E i \in 1..Len(s) :
                   /\ s[i] = Torn
                   /\ Flush(c, lines[c] \o Kept(SubSeq(s, 1, i - 1), keys))
             /\ pc' = [pc EXCEPT ![c] = "bad_copy"]
             /\ UNCHANGED copy
    /\ UNCHANGED <<command, opened, reply, names, system, history>>

DelEndOfFile(c) ==
    /\ pc[c] = "del_copying" /\ pos[c] >= Len(files[fp[c]])
    /\ pc' = [pc EXCEPT ![c] = "del_copied"]
    /\ UNCHANGED <<command, opened, copy, reply, names, files, system, history>>

(* fclose(tfp). *)
DelClose(c) ==
    /\ pc[c] = "del_copied"
    /\ pc' = [pc EXCEPT ![c] = "del_closed"]
    /\ Flush(c, lines[c])
    /\ UNCHANGED <<command, opened, copy, reply, names, system, history>>

(* Plausible bug: the file keeps its old name too. *)
TempAfterCopy == temp

TempAfterRename == 0

(* rename() and the reply "key deleted"; it fails if another child has     *)
(* taken the file away, and this child ends.                               *)
DelRename(c) ==
    /\ pc[c] = "del_closed"
    /\ IF temp # 0
       THEN /\ database' = temp /\ temp' = TempAfterRename
            /\ pc' = [pc EXCEPT ![c] = "recv"]
            /\ pairs' = Without(pairs, key[c])
            /\ NowSeen
       ELSE /\ pc' = [pc EXCEPT ![c] = "no_temp"]
            /\ UNCHANGED <<names, pairs, seen>>
    /\ UNCHANGED <<command, opened, copy, reply, files, system, raced, deleted>>

-----------------------------------------------------------------------------
(* No file changes in the other commands, and in what follows them. *)
ChildOnly(c, from, to) ==
    /\ pc[c] = from
    /\ pc' = [pc EXCEPT ![c] = to]
    /\ UNCHANGED <<command, opened, copy, reply, names, files, issued, history>>

(* A command that is none of the four is not answered, and both ends wait. *)
UnknownCommand(c) ==
    ChildOnly(c, "recv", "unanswered") /\ UNCHANGED <<procs, byes>>

(* Plausible bug: the child leaves its loop when the client has gone. *)
AfterCrashForking == "forking"

AfterCrash == "gone"

(* recv() returns 0, or an argument is missing: strtok() returns NULL and  *)
(* the child crashes.                                                      *)
Crash(c) == ChildOnly(c, "recv", AfterCrash) /\ UNCHANGED <<procs, byes>>

(* bye: after the reply the child leaves its loop and continues with the   *)
(* parent's, although its listening socket is closed.                      *)
Bye(c) ==
    ChildOnly(c, "recv", "forking") /\ byes' = byes \cup {c} /\ UNCHANGED procs

(* There accept() fails at once and the child forks again and again; what  *)
(* it forks ends at the recv() from no socket.                             *)
ForkAgain(c) ==
    /\ procs < MAXPROC
    /\ ChildOnly(c, "forking", "forking")
    /\ procs' = procs + 1
    /\ UNCHANGED byes

ChildStep(c) ==
    \/ Accept(c)
    \/ \E k \in Key : \/ \E v \in Value : PutOpen(c, k, v)
                      \/ GetOpen(c, k) \/ DelOpen(c, k)
    \/ PutWrite(c) \/ GetReply(c)
    \/ DelOpenTemp(c) \/ DelRead(c) \/ DelEndOfFile(c)
    \/ DelClose(c) \/ DelRename(c)
    \/ UnknownCommand(c) \/ Crash(c) \/ Bye(c) \/ ForkAgain(c)

Next == \E c \in Child : ChildStep(c)

Spec == Init /\ [][Next]_vars

-----------------------------------------------------------------------------
Content == IF database = 0 THEN <<>> ELSE files[database]

(* As long as no del overlaps another put or del, database.txt is at every *)
(* moment the store that each command changes at once: the copy, the       *)
(* rename and the appended line need no lock against readers               *)
(* (server_key.c:121-130,203-240).                                         *)
SerialStore == ~raced => Content = pairs

(* Under the same condition a get answers with a value its key had at some *)
(* moment since the command came, although the file it reads may have lost *)
(* its name meanwhile (server_key.c:149-186).                              *)
AnswersCurrent ==
    [][\A c \in Child : ~raced /\ GetReply(c) => reply'[c] \in seen[c]]_vars

(* Whatever the commands that overlap: nobody reads, appends to or looks   *)
(* up the file that is named temp.txt, so that fopen(TEMP_FILE, "w") never *)
(* empties a file under a reader (server_key.c:210,236).                   *)
TempIsPrivate ==
    temp # 0 =>
        /\ database # temp
        /\ \A c \in Child : pc[c] \in Writing \cup {"get_opened"} => fp[c] # temp

(* If the system has a process for every client and more, clients are      *)
(* turned away only after some client has said bye: no other command, and  *)
(* no end of a child, makes processes (server_key.c:80,263).               *)
RefusedOnlyAfterBye ==
    MAXPROC > Cardinality(Child) /\ (\E c \in Child : pc[c] = "refused") =>
        byes # {}

(* The reply "Pair added to database" (server_key.c:132): a pair whose key *)
(* nobody ever asked to delete stays.                                      *)
AddedPairsStay ==
    \A i \in 1..Len(pairs) :
        pairs[i].key \notin deleted =>
            \E j \in 1..Len(Content) : Content[j] = pairs[i]
=============================================================================
