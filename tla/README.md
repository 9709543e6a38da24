# Verification of the transfer programs of CSF303-Computer-Networks-Lab

The repository holds the programs of a computer networks course: pairs (and
small groups) of C programs that move text or a file over UDP or TCP sockets on
the loopback interface, most of them with a reliable transfer protocol of their
own on top of simulated packet loss. This directory holds TLA+ models of those
protocols, TLC configurations that check them, and proofs for TLAPS.

## 1. Inventory

| Component | Programs | State it keeps | Interaction | Status |
|---|---|---|---|---|
| Stop-and-wait | `lab6/udp_client.c`, `udp_server.c` | client switch state 0-3 and the packet to send again; server switch state 0-1 | UDP, one socket each; both drop what they receive with probability PDR | modelled, proved |
| Go-Back-N over UDP | `Practice-RDT/GBN/UDP` | client: input buffer and position, `base`, `nextseqnum`, `sent_packets`, timer; server: `expectedSeqNo`, last acknowledgement, `output.txt` | UDP, server drops | modelled, proved |
| Selective repeat with relays | `Practice-RDT/SR/UDP_selectiverepeat`, copied in `Practice - 2020` | client: window, slots, marks; two relays; server: window, marks, `output.txt` | UDP: client - relay - server, odd and even numbers on different paths; relays drop and delay | modelled, proved |
| File sender and receiver | `Lab10` (with `server.sh`) | client switch state 0-3, file position; server state 0-1 | UDP, server drops, the script kills and restarts the server | modelled, proved |
| List merger | `Practice - 2023` | two clients as in Lab10; server state 0-3, `list.txt` | UDP, one socket per client, read in turn | modelled, proved |
| Go-Back-N over TCP | `Practice-RDT/GBN/TCP` | as over UDP, with an end of transmission; the server's last packet | TCP stream, server drops what it has received | modelled, proved |
| TCP_Transfer | `Practice - 2019/TCP_Transfer` | client: input buffer and position, one packet buffer for what is sent and what is received; server: next number, last packet, `output.txt` | TCP stream, server drops what it has received | modelled, proved |
| Key-value server | `lab5/exercise_2_key_value` | `database.txt`, `temp.txt` shared by forked children; the process table | TCP, one child per connection, no locks | modelled, proved |
| Forked echo and chat servers | `lab5/server.c`, `lab3/simultaneous_connect_echo` | a buffer per child; the terminal all children read; the process table | TCP, one child per connection | modelled, proved |
| TCP_multichannel | `Practice - 2020/TCP_multichannel` | - | - | not modelled (section 6) |
| Echo, guessing game, next higher integer, FTP exercise | `lab3`, `lab4` | a line buffer | one request, one reply | not modelled (section 6) |
| Lab sheets, binaries, `read_data.c`, `write_data.c`, `gettime.c` | | | | not modelled (section 6) |

What is hard in these programs, and hard to test:

* **Loss and retransmission.** `dropPacket()` throws away packets at random; a
  test sees a handful of patterns. Retransmissions make duplicates, and the
  duplicates are read long after the packet was first taken.
* **Reuse of small numbers.** One bit tells packets apart in the stop-and-wait
  programs; the windowed ones index their slots with the number modulo the
  window, and selective repeat lets the numbers wrap around.
* **Lateness.** An answer can race the timeout it should have prevented.
* **Ends.** Few programs have one: Go-Back-N's client dies on purpose or not,
  the merger's server waits for a client that has gone.
* **Shared files.** The key-value server's children read, append to and replace
  the same files, each operation at its own time.
* **Shared memory.** TCP_Transfer's client receives acknowledgements over the
  packet it may have to send again.
* **A shared terminal.** All children of the chat server read the operator's
  answers from one terminal, in the order of their reads.
* **Restart.** Lab10's script kills the server in the middle of a transfer.

`PROJECT.json` lists these at their lines under `hazards`, each with the
properties that would catch it going wrong.

## 2. Modules

```
UdpSocket            the receive buffer of a UDP socket
TcpSocket            the end of a TCP connection, as the server sees it
InputBuffer          how the clients read input.txt
  StopAndWait        lab6 (UdpSocket)              -> implements WindowedTransfer (window 1)
  GoBackN            Practice-RDT/GBN/UDP (UdpSocket, InputBuffer)
                                                   -> implements WindowedTransfer (WINDOW_SIZE)
    GoBackNTcp       Practice-RDT/GBN/TCP (GoBackN, TcpSocket)
                                                   -> implements WindowedTransfer (WINDOW_SIZE)
  TcpTransfer        Practice - 2019/TCP_Transfer (InputBuffer, TcpSocket)
                                                   -> implements WindowedTransfer (window 1)
  SelectiveRepeat    Practice-RDT/SR (UdpSocket)
  FileSenders        the client of Lab10 and of Practice - 2023 (UdpSocket)
    FileTransfer     Lab10: one sender and its server, with restarts
                                                   -> implements WindowedTransfer (window 1)
    ListMerger       Practice - 2023: two senders and the merging server
                                                   -> implements StopAndWait, once per client
  ForkedServer       lab3/simultaneous_connect_echo, lab5/server.c (TcpSocket)
KeyValueStore        lab5/exercise_2_key_value
WindowedTransfer     abstract: items are taken once, in order, and confirmed later
UdpSocketProofs      lemmas about the receive buffer
<Module>Proofs       theorems about StopAndWait, GoBackN, GoBackNTcp (in GoBackNProofs),
                     TcpTransfer, SelectiveRepeat, FileTransfer, ListMerger
ForkingServersProofs theorems about KeyValueStore and ForkedServer
MC<Module>           instances for TLC, with MC<Module>*.cfg
```

### UdpSocket

The programs run on one machine. `sendto()` puts a datagram straight into the
buffer of the receiving socket (`SendTo`); if it is full (`Cap` datagrams) the
datagram is lost and the sender is not told. Order is kept and nothing is
duplicated by the network: every duplicate comes from a retransmission, as in
the programs. `select()` reports a timeout only when the buffer is empty, so
every timeout action requires that. No bound on time is assumed: unless said
otherwise a timeout can happen whenever the buffer is empty, also while the
answer is on its way. The operators model the kernel, from how the programs use
it, and are marked external in the map.

### TcpSocket

A connection is a queue of messages in each direction, in which nothing is lost;
messages are small and each is taken to be received as it was sent. What the
module adds is the end of a client, because the servers do not look for it:
after a FIN `recv()` returns 0 again and again; the first `send()` after it
succeeds and provokes a reset, the next one kills the server (SIGPIPE); `recv()`
still returns 0 after that reset. If the client left something unread, the reset
comes at once and `recv()` fails. External, like `UdpSocket`.

### InputBuffer

`compute()` and `getfilestream()`, the same in `Practice-RDT/GBN` and
`Practice - 2019/TCP_Transfer`: `bufFirst` packets were read before those in the
buffer, `currseq` is the position in it, `fp` says whether the file is open. The
data of a packet is the number of the chunk it carries. In TCP_Transfer a buffer is
filled with 999 bytes, so the last chunk of each has 99; the number stands for it
all the same.

### StopAndWait (lab6)

One action per case and outcome of the two switches; the four cases of the
client are two pairs that differ in the packet number `b`, so the actions take
it as a parameter (`Case0`..`Case3`). `sent` and `delivered` are histories: the
messages typed and the messages printed. The user can type any message at any
time; at the end of the terminal input `gets()` leaves the old message in the
buffer, which is one of them. `send_pkt` is uninitialised at the start and has
any value in `Init`.

### GoBackN (Practice-RDT/GBN/UDP)

`ReadInput` of `InputBuffer` is `compute()` with the refill of the buffer, and
`finalPacket` what the client makes of its result. `TIMEOUT` sends the
whole window in one step: the client reads nothing between the packets of the
burst. What the code does and a reader may not expect:

* `finalPacket` is cleared in the statement after it was set (client.c:108,111),
  so no packet ever carries FIN and both FIN branches are dead. They are in the
  model, in `NewAck` and `AcceptPacket`, as they stand.
* The client ends with `die("fp == NULL")` once it needs another buffer after
  the file was closed (`DieAtEndOfInput`). Behind the data it sends packets
  without content.
* After an old acknowledgement the timer gets what is left of the period, which
  is negative if the client was held up past the deadline; the next `select()`
  then fails (`tv`, `SelectFails`; `LateReturns` says if it can happen).
* The server receives through an uninitialised pointer (server.c:29,34): `Init`
  chooses whether it can be written through (`wild_pkt`).

### GoBackNTcp (Practice-RDT/GBN/TCP)

The client's text is that of the UDP client but for one statement: `check = 1`
is not commented out, so the client ends. The module extends `GoBackN`, takes the
buffer, the window and the slots from it and has actions of its own for what is
different. All packets have one size, so a `recv()` is taken to return one whole
packet; a `send()` waits for room instead of losing the packet.

The server has no exit. When the client has gone its `recv()` returns 0, again
and again, and the turn goes on with what `*pkt` held before (`lastPkt`), which may be
a packet `dropPacket()` had thrown away, until a call fails (`TcpSocket`).

### TcpTransfer (Practice - 2019/TCP_Transfer)

A stop-and-wait pair over TCP. Three things in it are not as they seem:

* `lastUnack` points to `*pkt`, the memory into which acknowledgements are
  received (client.c:102,136). The model has one variable, `pkt`, for both. In
  step only the packet's own acknowledgement overwrites it
  (`ResendsUnacknowledged`). After a timeout that came too early, an old
  acknowledgement may, and if the packet was lost the client then sends that
  acknowledgement for ever; the server answers it each time
  (`EndsOrOverwritten`). `early` is the history variable that says whether a
  timeout came while something was under way.
* What an acknowledgement holds besides its number is not assigned by the
  server: the value `Unassigned`. `ImplementsTransfer` includes that it is never
  written to the file.
* The client ends inside `compute()`, before it sends the packet it has created
  last; what is not sent has no data.

Sequence numbers are byte offsets in the code and packets here: both programs
advance them by the same steps.

### SelectiveRepeat (Practice-RDT/SR/UDP_selectiverepeat)

Four programs and eight buffers, indexed by the relay. A turn of the server
reads from each relay that has something, R1 first, and then slides; a turn of
a relay forwards a data packet and then an acknowledgement, and a dropped data
packet ends the turn (`continue`). Both programs slide with the same loop over
their marks; `SlideLength` and `Cleared` say where it stops and what it clears,
also when the numbers wrap around in the middle of it. `slid` is a history: how
far `base` has moved, not counted modulo `MAX_SEQ_NO + 1`.

How late a packet may be is a bound of its own. A timeout is *early* if it comes
while something the client waits for is still under way: a program was
suspended, or the machine was, for the five seconds of the timeout, against relay
delays below two milliseconds. `early` counts them, up to `MaxEarly`. What the
server guarantees (`WrittenOnce`, `OrderWithinWindow`, `AcksTruthful`) holds whatever
their number; what the two programs guarantee together (`SlidesOverWritten`,
`AgreeAtRest`, `Terminates`) is stated for `early = 0`, and the findings show that
it fails otherwise.

### FileSenders, FileTransfer, ListMerger (Lab10, Practice - 2023)

The client is the same text in both directories: `read_packet`, `handle_ack`,
`handle_timeout` and a switch of four cases. Its state is indexed by the client,
so that one module serves both. The data of a packet is the position of the
field in the file.

`FileTransfer`: the server acknowledges with the number of the packet, whatever
its own state, and prints duplicates too; `printed` is the history of what it
prints without immediate repetitions. `Restart` is `server.sh`: the state is 0
again and the socket empty. What is sent between the kill and the new `bind()`
is lost, as if it had been in the socket. The kill may also come between the
print of a packet and its acknowledgement.

`ListMerger`: the state says whose turn it is and which number is expected. The
client files hold unresolved merge markers; the HEAD side of `client-2.c` is
the program modelled for both clients.

### KeyValueStore (lab5/exercise_2_key_value)

A file is a number; `database` and `temp` are what the two names lead to, and a
child keeps the file it has opened (`fp`, `tfp`) when a rename gives the name to
another one. Each action is one operation on the files: put is an `fopen()` and a
write, get an `fopen()` and a read, del an `fopen()` of each file, reads up to the end,
the write at `fclose()` and the `rename()`. A line stands for its pair. When a
child writes into a file another one has written, the lines behind may be cut at any
place (`Overwritten`, `Torn`), because lines differ in length. What a del keeps
reaches `temp.txt` when it is closed, or when `exit()` flushes it because a line does
not parse (`Flush`).

`pairs` is a history: the store as if each command took effect at once, at its write or
its rename. `raced` says that a del has overlapped another put or del.

The state of a child also says what ended it: `no_file` (`fopen()` failed), `bad_line`
and `bad_copy` (a line that does not parse), `no_temp` (`rename()` failed), `gone`
(a missing argument or a closed connection crashes it in `strcmp()`), `unanswered`
(an unknown command: both ends wait) and `forking`: the `break` after bye leaves the
child's loop only, and the child goes on to fork in the parent's, whose `accept()` now
fails at once. Nobody waits for the processes, so `procs` only grows.

### ForkedServer (lab3/simultaneous_connect_echo, lab5/server.c)

One module for two servers that differ in what a child does: `program` is chosen
in `ForkInit`. The chat's child clears its buffer, receives, and asks the operator for
an answer with `gets()`; the echo's child sends its buffer back. A text is a
sequence of bytes, each tagged with who typed it, about which client and in which
message, so that a property can ask where a byte of an answer came from.

The parents are the same: `AcceptAndFork` forks a child, or turns the client away when no
process is left. A child that has ended is never waited for and keeps its
process. The children of the chat inherit one terminal: `prompts` are the
clients whose children have asked, in the order the operator sees them, and
`typed` the lines typed and not read. Any child in `gets()` may read the next one
(`ChatAnswer`). A client sends a line, waits for one, and may be interrupted at any
moment. When the parent has closed the connection for want of a process, `recv()` of
the client fails, or returns 0 and the client goes on (`TurnedAway`). An empty line
sends nothing, so the other side goes on waiting: the history `emptyLine` remembers it
on the server's side.

### WindowedTransfer

What all of these promise: items are handed in while the window has room, taken
one by one in their order, never twice, and the sender learns of it later.

## 3. Runs

Every cfg names its bounds. `pass` runs finish; `violation` runs show a
disagreement between the code and what it says about itself.

| Run | Question | Bounds, and why they are enough |
|---|---|---|
| `stop_and_wait` | types, inductive invariant (order and no false acknowledgement are parts of it), refinement; liveness of the abstract transfer | 2 messages, 5 rounds, buffers of 3: each number is reused twice with leftovers of two rounds in the buffers; no symmetry, because of the temporal properties |
| `go_back_n` | the same, and the slots, the end of the client, and everything is written | window 3, buffer 4, 7 chunks: 11 packets, each slot used three times, a full buffer, a partly empty and an empty one; `select()` may return late |
| `go_back_n_tcp` | refinement; the client ends with everything written and not before, and asks for nothing behind the end of the file; both programs end | window 3, buffer 4, 8 chunks: the data ends with a buffer, which is the case with an empty packet behind it; room for two bursts |
| `selective_repeat` | what the server guarantees however late things arrive; client and server together as long as timeouts mean losses | window 3 (odd, as in the code: a slot changes its relay), 7 packets: each slot used twice; buffers of 2; one early timeout |
| `selective_repeat_stale` | finding: the window passes a packet nobody wrote | window 2, 4 packets |
| `selective_repeat_wrap` | finding: no window after the wrap | numbers 0..6, 10 packets, window 2 |
| `file_transfer` | types, refinement (so order and no false acknowledgement) with any number of restarts; the client gets through | 8 fields, buffers of 4: each number is used four times |
| `list_merger` | merge in turn; each side is a stop-and-wait pair; where the merge ends, and for whom | files of 4 and 5 fields, buffers of 4: both numbers are reused by both clients, and the first file ends first |
| `key_value` | one store as long as no del overlaps another put or del; whatever overlaps, no file is emptied under a reader; processes | 2 children (symmetric), 4 commands in all, 2 keys, 3 lines to begin with or no file; 4 processes: one more than needed, which one bye uses up |
| `key_value_lost` | finding: an added pair is lost | 2 children, 2 commands |
| `tcp_transfer` | types, refinement whatever is overwritten; the packet sent again is the right one as long as no timeout was early; both programs end, or the packet was overwritten | buffers of 3 packets, 5 chunks: a full buffer, one that ends with an empty packet, and the empty one behind it; timeouts at any moment, 3 copies under way |
| `forked_server` | where the bytes of an echo come from; whom an answer reaches; every line is answered, every echo child ends, and the two exceptions | 2 clients, 3 lines of at most 2 bytes, buffer of 3: a long line, a short one and an empty one after it; 1 or 2 processes, so that fork() fails too |

`CHECK_DEADLOCK FALSE` stands where the system really stops: the user may stop
typing, the client ends and the server waits for ever.

### Fairness

The loops of all programs run for ever without skipping a turn, so a step that
stays possible is taken (weak fairness). `dropPacket()` is an independent draw
with probability below one for each packet: it cannot swallow every packet of an
endless sequence, so receiving without dropping is strongly fair. Nothing is
assumed of the user, of the order of the programs or of how long a step takes.
In `GoBackN` progress is claimed for a server that can receive at all, and up to
the point where `select()` refuses a timeout, which the run allows at every old
acknowledgement (`LateReturns = {FALSE, TRUE}`). In
`GoBackNTcp` both programs end under the same conditions; in `TcpTransfer` they
end or the client repeats an old acknowledgement. In `ForkedServer` the operator
answers every prompt, in order, and no child that reads the terminal is passed over
for ever (strong fairness of `ChatAnswer`); nothing is assumed of the users. In
`FileTransfer` strong fairness of receiving means that nobody restarts the server
before every single packet.

### Findings

1. **A stale acknowledgement passes for a new one** in selective repeat
   (`client.c:281,289`): marks are set by slot with no look at the window. A
   data packet that is under way for longer than the timeout is sent again; the
   second acknowledgement comes when the slot belongs to the next packet, and
   the window slides over a packet that was lost. It is then never sent again,
   and the server ignores everything behind its own window.
2. **The window does not survive the wrap of the numbers** (`client.c:146`):
   from the moment `currseq` is 0 again until `base` is, the test is always
   true and the rest of the file goes out at once; the loop over
   `base..currseq-1` of a timeout is empty meanwhile.
3. **An added pair is lost** in the key-value server (`server_key.c:236`): a del
   renames its copy over a database that has got a line since it was read, or a
   put writes to the file that has just lost its name. The client was told
   "Pair added to database".

Not findings but facts worth knowing:

* Go-Back-N never sends FIN (`client.c:107-111`), neither over UDP nor over TCP:
  the variable is cleared in the statement after it was set. Selective repeat's
  client does the same (`client.c:161-166`); the ends of the programs do not depend
  on it.
* TCP_Transfer's client can lose the packet it would have to send again
  (`client.c:102,143`) and then repeats an old acknowledgement for ever; it takes a
  timeout that was early and a loss after it.
* The echo server never clears its buffer (`lab5/server.c:62-78`): the echo of a
  short line has the end of an older one behind it, at the start possibly memory
  of the parent. It is always the client's own, never another client's.
* Two children of the chat in `gets()` at a time may read each other's answers
  (`simultaneous_connect_echo/server.c:102`). An empty line of the operator, or
  of a client, is not sent, and both sides wait from then on.
* An echo child whose client has gone is killed by its second `send()`; if its
  buffer is empty it sends nothing and loops for ever. No child is ever waited
  for, so a long-running server runs out of processes.
* Selective repeat's server writes in the order of arrival (the run shows that a piece is less
  than a window from its place) and writes `recv_len` bytes of a smaller payload
  (not modelled).
* The merger's comment on its states (`server.c:2-9`) does not describe them:
  state 1 receives number 0 from the second client.
* Two dels at the same time share `temp.txt`: one of them ends at a failing
  `rename()` without an answer, and keys deleted by one may come back from the
  copy of the other.
* The key-value client waits for `Goodbye`, the server says `goodbye`
  (`client_key.c:44,76`, `server_key.c:254`): the client does not end on it.
* The merger stops at the end of the shorter file and leaves the other client
  resending for ever (`EverythingMerged`), and the `.` behind the list is never
  written because `completed` is never set.

## 4. Proofs

All theorems hold for every value of the constants that the named assumptions
admit, on any number of packets.

* `UdpSocketProofs`: what `SendTo`, `SendAll` and reading do to a buffer.
* `StopAndWaitProofs`: from `MaxMessagesAssumption` and `CapAssumption`.
  `InOrderOnce` and `NoFalseAck` are not inductive: that one bit is enough
  depends on what is in the buffers. `Agreement`, which the run checks, adds that
  (`CurrentPacket`) copies of the current packet carry the last message,
  (`ServerPosition`) the server has it or waits for it, (`NothingStale`) no acknowledgement of it exists
  before the server has it and no older packet after, and (`OldBeforeNew`)
  leftovers of the last round are in front of everything of this one. One lemma
  per action; `AlwaysAgreement`, then `DeliveredInOrderOnce`,
  `NoAckBeforeDelivery`, and `StopAndWaitImplementsTransfer`, in which each step
  is a step of the abstract transfer or changes nothing of it.
* `GoBackNProofs`: from the assumptions of the module. `Agreement` ties
  `base <= expectedSeqNo <= nextseqnum <= base + WINDOW_SIZE` to the contents of
  slots, buffers and file position. `BufferAssumption` (a buffer is not smaller
  than the window) is needed for one theorem, `ClientDiesAfterDelivery`: the
  file is found closed one whole buffer behind the data, the window has room,
  so everything of the file is acknowledged. `packet.h` has 10 packets to a
  buffer and a window of 5. The second half is about `GoBackNTcp`: windows, slots and
  positions are as over UDP, and `TcpAgreement` adds that every packet of the stream,
  and the one the server keeps in `*pkt`, is what its number says and was sent
  (`StreamGenuine`: that packet is evaluated again after the end of the stream,
  and must not be taken for the next one), and where the client is when it sees
  the end of the data (`EndPosition`: it looks one packet ahead, so in the buffer
  behind the file it notices the end with its first packet). The second needs
  `TcpBufferAssumption`: with one packet to a buffer it never looks ahead.
  `TcpAlwaysAgreement`, then `TcpEndsComplete` and `TcpImplementsTransfer`.
* `TcpTransferProofs`: from the assumptions of `InputBuffer` and `TcpTransfer`.
  `Agreement` says that the programs are at most one packet apart (`Positions`),
  that packets the server may still take have the data of their place
  (`InTransit`), what the two packet buffers may hold (`Memory`) and that
  only the client's end closes the connection (`Ending`). From it follows that
  the pair implements the windowed transfer, also after the client has overwritten
  its packet. `ResendsTheUnacknowledged` needs `InStep` besides: as long as no
  timeout was early, one packet or one acknowledgement is under way at a time.

* `SelectiveRepeatProofs`: for every window, file and buffer size. `TypeCorrect`
  needs nothing else; it rests on the loop of the window stopping within a window,
  which is the pigeonhole principle (`SlideLengthType`). The other theorems assume
  `NoWrapAround` (`NumPackets + WINDOW_SIZE <= MAX_SEQ_NO`: with `packet.h`, files of
  up to 995 packets); the run `selective_repeat_wrap` shows what happens otherwise.
  - What the server guarantees however late things come: `Agreement` says that the
    slots hold the last window of what was sent (`WindowHoldsSent`), that whatever is
    under way was sent, and is acknowledged only if the server has it
    (`TrafficGenuine`), and that the server has written exactly what its window
    says (`ServerWrote`). `WrittenOnce` and `OrderWithinWindow` are conjuncts of it;
    neither is inductive alone: that a piece is new depends on the marks, and its
    place on how many pieces of the window are still missing
    (`LengthWithinWindow`, by counting).
  - What holds as long as no timeout was early (`AgreementOnTime`): a number is
    under way at most once through its relay, as a packet or as an
    acknowledgement (`InOnePlace`), and only if the client waits for it
    (`OnlyPending`), so a mark is always made in the slot of its own packet
    (`MarksTruthful`). This gives `AlwaysSlidesOverWritten`; a timeout may resend
    because nothing is under way then.
  - `AlwaysAgreeAtRest` needs `Acknowledging` besides (what the server has and the
    client waits for is acknowledged by something under way), and that no
    acknowledgement is lost in a full buffer: `BurstFits`, a buffer holds half a
    window (with `packet.h`, three datagrams). `RoomInBuffer` is again
    counting: numbers of one relay in one window differ in half their distance
    from its beginning.
* `FileTransferProofs`: from the assumptions of `FileSenders` and `FileTransfer`.
  `Agreement` has `Position` (the file is printed up to the field read last, or
  to the one before it), `ClientInStep`, and that among the packets, and among the
  acknowledgements, copies of the last field come behind those of the one before
  (`PacketsInOrder`, `AcksInOrder`). The server's own state is no part of it: it
  acknowledges with the number it has received, which is why a restart does no
  harm. `FileTransferImplementsTransfer` includes the restarts;
  `ExitAfterLastField` says that the client's exit is not too early.
* `ListMergerProofs`: the merger is not proved from the beginning.
  `MergerImplementsStopAndWait` maps each step to a step of the stop-and-wait pair of
  one client and to nothing of the other's; `StopAndWaitProofs` then says what that
  client's part of `list.txt` is. With `InTurn` (the server's state is the number of
  written lines modulo 4) `AlwaysMergedInTurn` follows.
* `ForkingServersProofs`, first half: `KeyValueStore`, for every finite set of clients,
  every set of keys and values and every database to begin with. `TempIsPrivate` follows
  from the types and from `Opened` (a child uses only files it has opened).
  `Processes` counts one process for every client served while nobody has said bye.
  `Serial` is the invariant behind `SerialStore`: `database.txt` holds the pairs of
  the history, a put writes to that file, a del that has not been overlapped has
  copied the lines it has read and nothing else (`DelAlone`), and what a get will
  find was current since its command came (`GetCurrent`). `AnswersAreCurrent` is
  the action property that follows. `pairs` and the copy are built by the recursive
  function `OtherLines`.
* `ForkingServersProofs`, second half: `ForkedServer`, for every set of clients, every size
  of the buffer and every limit on the processes. (Some of its definitions are called
  `Fork...` so that one module can extend both.) Nothing here is inductive alone:
  - `ForkTypeOK` needs `LinesFit`: the length that `strlen()` finds is the place of a
    terminator, and there is one because `ForkInit` ASSUMES that the last byte of the
    uninitialised buffer is zero, what an echo child receives is shorter than its
    buffer, and so `recv()` never reaches that byte. The code does not see to the
    first of these; `EchoKeepsOlder` rests on it too.
  - `TakeTurns`: a client and its child have one line, one prompt or one answer
    between them, and `BacklogNew`: a client is accepted once. Every other proof
    rests on these two; from them follows that a client asks nothing new while
    something is on its way to it (`AskedOnce`).
  - `EchoKeepsOlder` is part of `Echoes`: what a child is about to receive is the last
    line of its client, and the bytes of its buffer get older from front to back
    (`BufferKeepsOlder`). Both what `recv()` does to such a buffer and what
    `strlen()` takes of it are lemmas (`ReceivedKeepsOlder`, `TextKeepsOlder`).
  - `AnswersTheirClient` is about the terminal: `LinesMatchReaders` says that the children
    in `gets()` are as many as the prompts without an answer and the answers not yet
    read, by counting. So the terminal is empty when a child comes to it alone, and
    as long as no two have met there what lies on it is for the one that reads
    (`AnswerUnderWay`). Without the count an old answer might be left over for the
    next child.

TLC has checked every inductive invariant on the instance of its run, or on one like
it, before its proof. Where a definition is a recursive function (`OtherLines`,
`Resent`) the proofs use the induction over sets of numbers that follows from the
well-foundedness of `<` (`LeastNumber`, `SetInduction`); the induction theorems of
the library, which take a predicate, are not used.

Every invariant, every action property and every refinement that a passing run
checks is the statement of a theorem, but for liveness. Only model-checked:

* liveness and the fairness it needs, in every module: `ImplementsLiveTransfer`,
  `EverythingWritten`, `BothEnd`, `Terminates`, `EverythingMerged`, `EndsOrOverwritten`,
  `EveryoneAnswered` and `EchoChildrenEnd`. Such proofs need `ENABLED`, which the prover
  does not reason about;
* the runs that expect a violation: they show a behaviour, so there is nothing to prove.

## 5. What is left

No safety property of a run is without its theorem, and no component is modelled
in part. Some hazards have no property, each with a note in `PROJECT.json`. For most of
them the model has the behaviour and the code promises nothing against it: the
answers that cross at the chat's terminal, the lines two dels lose in `temp.txt`, the
processes that a bye uses up, the unknown command both ends
wait for. Two are outside the models: the file descriptors that put and get
never close, and `strlen()` past the end of `msg`. If the programs change, the
modules to change with them are in section 2; a model of `TCP_multichannel` has to
wait until it compiles.

## 6. Not modelled

* **TCP_multichannel** (`Practice - 2020`): `client.c` and `server.c` use names
  they do not declare, or declare one twice. They do not compile, so there is no
  behaviour to model.
* **The copy of selective repeat** in `Practice - 2020`: the text of
  `Practice-RDT/SR` but for a blank line. `SelectiveRepeat` covers both; its map
  names the lines of `Practice-RDT`.
* **`client-1.c`** of `Practice - 2023`: unresolved merge markers in which
  neither side is a whole program. Its main loop is that of `client-2.c`.
* **One request, one answer** (`lab3/server.c`, `lab4/server.c`, the guessing
  game, the next higher integer): one process serves one connection at a time, so
  a client that sends nothing keeps all others waiting; what is left is
  arithmetic on one line. `lab3/server.c` and `lab4/server.c` listen on
  port 12346, the clients beside them connect to 12345. The "next higher integer"
  is `ceil()`, which leaves an integer as it is.
* **The FTP exercise** (`lab4`): the server calls `recvfrom()` on a stream socket
  nobody has connected, ignores that it fails, and goes on with an unassigned
  command.
* **Data the properties do not look at**: the texts, their formatting and
  printing; lines longer than a buffer (`gets()`); partial messages in a TCP
  stream; the descriptors the key-value server never closes; the failures of
  `socket()`, `bind()` and `listen()` at the start of the programs.
* **`strlen()` past the end of `msg`** in `lab5/server.c:78`: the buffer is never
  initialised, and if it holds no zero byte the echo reads on behind it. That is
  undefined; the model assumes a zero in the last byte.
* **Toys and sheets**: `gettime.c`, `read_data.c`, `write_data.c`,
  `read_write.c`, PDFs and compiled programs.
