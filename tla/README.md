# A verification of vcontrold

vcontrold is a daemon that lets several clients talk to a Viessmann heating controller
(Vitotronic) over one serial or TCP link. This directory holds TLA+ specifications of
its core, the configurations with which TLC checks them on small instances, and proofs
that TLAPS checks for every value of the constants.

## The system

| part | files (under src/src) | state | operations |
|---|---|---|---|
| daemon and sessions | vcontrold.c, socket.c | one process per client; per session the descriptor `fd`, `noUnit`, `sendLen`, buffers | `listenToSocket`, `interactive`, `rawModus`, `readCmdFile`, `reloadConfig`, signal handlers, `main` |
| link semaphore | semaphore.c | a System V semaphore with SEM_UNDO | `vcontrol_seminit`, `semget`, `semrelease`, `semfree` |
| framer | framer.c | `framer_pid`, `framer_current_addr`, the controller's mode | `framer_openDevice`, `closeDevice`, `send`, `receive`, `waitfor` |
| byte code | parser.c | lists of nodes per command, filled with parameters and kept by the process | `compileCommand` (`expand`, `buildByteCode`, `parseLine`), `execByteCode`, `execCmd` |
| low-level I/O | io.c | the line; O_NONBLOCK, SIGALRM | `openDevice`, `my_send`, `receive`, `receive_nb`, `waitfor` |
| configuration | xmlconfig.c, xml/ | lists of protocols, devices, commands, units | `parseXMLFile`, `freeAllLists`, reload by request or SIGHUP |
| units, arithmetic | unit.c, arithmetic.c | none | `procGetUnit`, `procSetUnit`, `execExpression` |
| logging | common.c | `errMsg`, `errClass`, `dbgFD` | `logIT`, `sendErrMsg` |
| client | client.c, vclient.c | the position in the dialogue | `recvSync`, `sendTrList` |
| simulator | vsim.c | none | answers canned requests |

A client connects; `listenToSocket` forks a session, which runs `interactive`. A command
of the XML file makes the session take the semaphore, open the device (`framer_openDevice`
switches the controller into P300 mode if the protocol says so), and run the command's
byte code, which sends and receives through the framer. The session keeps device and
semaphore until `close`, `quit`, the end of its input or an error. Sessions share nothing
but the semaphore and the link; a child inherits configuration, byte code and signal
handlers from the daemon as they are when it is forked.

What is hard about it: processes that die at any point while they hold the lock or have
left the controller in P300 mode; a semaphore that counts, with adjustments the kernel
applies; answers that come late, mangled or not at all; byte code and buffers that outlive
the command they were filled for; signals that run handlers anywhere; reload of what is in
use. The hazards are listed one by one, with their lines, in PROJECT.json.

What makes each part correct: one session on the link at a time and no lock lost
(sessions); an answer is the intact, fresh answer to the own address, and the mode of the
controller is what the daemon thinks (framer); a command sends its own parameter, whole
and alike in every retry, or nothing, and returns no rejected answer (byte code); a reload
replaces everything or nothing, and frees once what was in force (configuration); what is set is
read back (units); each error reaches the command it belongs to, once (logging); an answer
belongs to the request the client has sent (client).

## Modules

| module | models | of |
|---|---|---|
| LinkLock | the promise of the semaphore: the link passes from one session to the next only by being free | header comment of framer.c |
| Sessions | sessions, semaphore, signals, crashes, restarts | vcontrold.c, semaphore.c, socket.c |
| MCSessions | two sessions | |
| SessionsProofs | theorems about Sessions | |
| Framer | the P300 protocol over an unreliable line | framer.c, io.c |
| MCFramer | addresses and lengths that reach its branches | |
| FramerProofs | theorems about Framer | |
| Device | Framer, KW commands and command files on one device; `receive`, `waitfor`, `receive_nb` step by step | io.c, framer.c, parser.c, vcontrold.c |
| MCDevice | request lengths and WAIT lines | |
| DeviceProofs | theorems about Device | |
| Compiler | `expand`, `parseLine`, `buildByteCode` as functions on texts of tokens | parser.c |
| SendLines | what a send line means, apart from how it is compiled | xml/ |
| ByteCode | parameters, pre commands, byte code, retries across calls | parser.c, vcontrold.c |
| Commands | Compiler and ByteCode composed: from a document to the line | parser.c |
| MCByteCode | a document with the lines of kw/vcontrold.xml | |
| ByteCodeProofs | theorems about ByteCode and Commands | |
| Float32 | single precision numbers, as sign, significand and exponent | C |
| Arithmetic | the recursive descent of calculations, in integers and floats | arithmetic.c |
| Expressions | what a calculation means: a grammar | |
| Units | conversions for get and set commands of one unit, for any way of calculating | unit.c |
| Calculated | Units with the calculations of Arithmetic, against Expressions | unit.c, arithmetic.c |
| MCUnits | units of xml/, edge values, some 7000 calculations | |
| UnitsProofs | a theorem about Units | |
| Config | the lists of commands of one process: who owns which string, what a lookup finds | xmlconfig.c, parser.c |
| MCConfig | documents of a few elements | |
| ConfigProofs | theorems about Config | |
| Reload | how a new document reaches daemon and sessions | vcontrold.c, socket.c |
| MCReload | two sessions | |
| ReloadProofs | theorems about Reload | |
| Calls | the promise of the client library: commands in order, at most once, each with its own result | client.c |
| Client | a client in dialogue with its session, and the error buffer | client.c, vcontrold.c, common.c, socket.c |
| MCClient | lengths of messages | |
| ClientProofs | theorems about Client, and that it implements Calls | |

Definitions marked *Variant* are plausible bugs of the definition they precede; no
specification uses them. They are there to show that a property notices such a bug.

### Sessions

`pc[s]` is the place of process `s` in `interactive()`, `rawModus()` or `readCmdFile()`;
one action is one call that other processes can see (the table of places is in the
module). `semval` is the semaphore's value, `adj[s]` the adjustment the kernel keeps for
`s` because of SEM_UNDO: `ProcessEnds` adds it to the value and keeps that within
0..SEMVMX. `vcontrol_semfree` removes the semaphore; processes that go on are `orphan`,
and their next operation fails and ends them. Requests that do not touch the device are
one action (`OtherRequest`). `overReleased`, `saturated` and `restarted` only record what
has happened.

*Sessions.cfg* (passes): two sessions, SEMVMX = 3. `ExclusiveUnlessOverReleased`: two
sessions are on the link at once only after somebody released a lock it did not hold, or
when one is left over from an earlier daemon. `LinkIsCharged`: who is on the link would
give the lock back by dying. `LockNeverLost`: nobody has the lock and it cannot be taken:
never. `ImplementsLinkLock`: the refinement of LinkLock, with `users` the sessions on the
link and `void` the release of a lock not held, or a restart. `WaitersProceed`: waiting
ends. Two sessions suffice for every conflict of two, and a third only waits; SEMVMX = 3
lets the value pass 1 and reach its limit. A real limit is 32767.

*SessionsOverRelease.cfg* (violated): without the exemption, a session that sends `close`
without having opened the device, while another one is on the link, releases the other's
lock, takes it by its next command, and both are on the link. (A superfluous release by a
session that ends is taken back at its end by SEM_UNDO.)
*SessionsRaw.cfg* (violated): raw mode in a session whose device is open blocks itself.

Fairness: a process that is not blocked runs (WF of `Proceed`; the device's waits have
timeouts); the kernel serves waiters of a semaphore in order, so one that can proceed
again and again does (SF of `Acquire`); clients whose session has the device open leave
some time, and raw input ends (`PoliteClients`), without which a silent client may keep
the link for ever, as it can in reality.

### Framer

One session and a controller. The program's part is `pc`, the loop counters, `framer_pid`
(`pid`) and `framer_current_addr` (`addr`). The controller acts on a message at once or
loses it; its bytes are in `transit` until they arrive on the `wire`, perhaps after the
program has given up. Items are single bytes, whole frames (of which one may be cut or
have a wrong checksum) or `Junk`. The lengths decide the control flow of `framer_receive`
as they do in the code: the first read is as long as the data the command expects
(`rLen`), the length byte is a signed char (`SignedChar`). Whether `tcflush` in `my_send`
throws unread bytes away depends on the device being a tty (`tty`). A session may crash
anywhere and leave the controller in P300 mode.

*Framer.cfg* (passes): two telegrams, at most two items under way, an ordinary address,
that of getTimerWWMi with its cut answer, and one that looks like a link status; nine
bytes of data (as long as an error report) and 123 (a negative length byte).
`OnlyOwnAnswers`, `FreshAnswer` (on a tty, when nothing was sent while bytes were under
way), `IntactAnswer`, `AddrIdle`, `ModeIsKnown`. Two telegrams are one late answer and its
victim; two items are an acknowledgement and an answer.
*FramerStrange.cfg* (violated): the short read that "should not happen here".

### Device

Device extends Framer: a device is configured for P300 or for KW, and opened for a client's
commands or for a raw command file (`file`). P300 commands are Framer's steps, here
interleaved with nothing new; KW commands and all lines of a file are unframed, and their
bytes are read one by one. The line may lose any bytes of an unframed answer (`Partly`;
the tty drops bytes with a parity error). `receive()` is `Arm`, `ReadByte` and the `alarm(0)` of
`WaitedFor` or `Received`, with `AlarmGoesOff` before or after the byte has been read;
`io` holds the locals of the call under way. `waitfor()` skips what does not match its
first byte, looks at its clock after every byte, and exits when a later byte is wrong. A
failing line of a file ends the process or not, as `execCmd()` has it: SEND and RECV do,
WAIT does not. A KW command is SEND 04, WAIT 05, the request and RECV of its length, as
the configurations write it; a file has its lines in any order.

*Device.cfg* (passes): requests of one and two bytes, WAIT for one and for two bytes, two
items under way, two KW requests or one P300 telegram.
`AlarmOnlyInReceive`: an alarm runs exactly while `receive()` waits.
`KWAnswerIsOwn`: KW answers are handed on unchecked, and yet, on a tty and if nothing was
sent with bytes under way, what a command gets and what is on the line behind it are bytes
of its own answer, each once and in their order, and then announcements (`OwnStream`). An
answer that comes whole is therefore handed on as it is. When the controller has not heard
the request, all bytes are announcements, which is why the configurations give such
commands the error string `05 05`. When the line has lost a byte and the controller
announces itself within the time limit of the read, the last byte of what is handed on is an
announcement, which that error string does not catch: the code converts it like a value.
It is the flush in `my_send()` that keeps other commands' bytes out, and a TCP device has
none. A byte that arrives is taken to be an announcement exactly if the controller sent it
as one; the bytes of an answer have any value. Two requests are one whose answer comes late
and its victim. `CallsReturn`: opening (P300), every line and every command ends. `MaxReads` = 3
stands for the bytes that arrive in the five seconds of `waitfor()`.

Fairness: WF of `DStep`, the program's own steps. It is justified because each read is
limited by `alarm()` or by `select()`; nothing is assumed of the controller, which may
announce itself for ever.

### Compiler, SendLines, ByteCode, Commands

A text is a sequence of tokens: words, numerals, variables, blanks and semicolons.
`ReplaceVariables`, `ReplaceMacros` and `buildByteCode` scan it as the code does, each
looking for another end of a word and skipping the first character of a piece. SendLines
says what the same line means as statements of words, in one definition (`Meaning`).

ByteCode is a sequence of calls of the commands of one device in one session, or in
several sessions one after the other. A command is a program of nodes with what the
configuration says of it. The state that outlives a call is `bytesNode` (`send` and `len`
of the BYTES node), `sendLen` and `noUnit`. Data are told apart by what they are
(`leftover` of the compiler, `zeros`, a parameter) and by the call they belong to. A
command with a pre command first runs that one (`First`), without a parameter of its own,
and goes on only if it has a result. What the framer makes of a message or an answer is
any outcome. Commands instantiates ByteCode with the compiled document.

*ByteCode.cfg* (passes): three calls of five commands: getaddr and setaddr of KW2, one with
a pre command, and two lines that reach branches these leave out. `RunsAsWritten`: what
goes over the line is what the document says, by SendLines, statement by statement and in
every round. `WholeParameter`, `BadParameterSendsNothing` (neither a bad parameter nor a
failed pre command), `RejectedIsNoResult`, `CommandReturns` (WF of `Step`). Three calls let
a parameter be converted, refused or switched to hex, and then be followed by another.
*ByteCodeHex.cfg* (violated): with "unit off", the length of a correct parameter is
refused until some conversion has set the length of the node.

What the models show besides, as it is in the code: a `$variable` at the very beginning of
a line is not replaced; a macro behind a blank that follows a semicolon, or behind a unit
that is empty, is not found, and the command then ends with "Unknown token" each time;
`$len` in a SEND is decimal text that is read as hexadecimal, wrong from 10 on (the
configurations use `$hexlen` there); a BYTES node that is merged into a SEND and has no
unit sends the one leftover byte of the compiler and never the parameter (no set command of
the configurations has this shape, the GWG test commands have).

### Float32, Arithmetic, Expressions, Units

A unit with the get and the set command of one address. `Set` is typing a text or writing
back what `Get` has shown; `SeasonChanges` moves the host's clocks in between. Texts are
records of what they say. Floats are exact models of IEEE single precision within the
values of two byte numbers; the host is little endian, with signed char and no excess
precision. Arithmetic follows `execExpression` and `execIExpression` level by level, with
the position in the text standing for `pushBack`; a value read is the one element of a
set, which is empty for an error. Units calls both through its constants `Calculate` and
`CalculateInt`, so that it does not depend on recursive operators; Units.cfg gives them
these values, and Calculated says what they should compute. What Units assumes of its
constants is evaluated by TLC for the instance: a memory has as many bytes as its command
reads; entries of an enumeration that are read for the same bytes have the same word, as
in all of xml/; a switching programme is typed as times of a day, with "--" for a pair,
between blanks; no unit shows a hex number that calc would have to read with `atof()`; and
the offset of a time is one that a zone of the earth can have. `Rubbish` is what `min` of
`setCycleTime()` may hold before anything is put there, which a text can bring into the
telegram (`Scanned`). Expressions takes a text apart from the outside, at its last sign or
operator.

*Units.cfg* (passes): units of every type, over bytes at the edges of their ranges, with up
to two set commands, and one unit for each of some 7000 texts of calculations.
`SetIsReadBack`: what is set is what the next get shows; of switching programmes, what was
typed. `WriteBackNearby`: a shown number written back is the same or one nearer to zero.
`OneBitSet`: setting a bit in what the pre command has read leaves the others alone.
`ShowsMeaning`: a calculation is worth what its text means. Two set commands are one that
types and one that writes back.

What the models show besides: a switching programme cannot be written back as it is shown.
`getCycleTime()` writes a line `1:An:06:00  Aus:22:00` for each pair; the request ends at the
first line feed, and of the two words before it, which pass the test for a colon,
`sscanf("%u:%u")` reads an hour of 1 and no minute. `setCycleTime()` does not look at its
result, sets both points of the first pair from whatever `min` holds, and clears the others.
A day beyond the end of its month is taken by `strptime()` and moved on by `mktime()`
(`Normalized`), so 30 February is shown as the day in March.

V, V/2 and V/10 come back exactly for every value; V/100 comes back one off for 4582 of 65536 values, V/1000 for 739 and V/3600 for 12728 (no set
command of the configurations uses these); writing back again and again settles after four
steps. A word typed for a numeric unit is 0, a unit without set calculation sends 0. Years
whose second BCD digit pair is 80 to 99, or the first, are broken by the signed char
(`Readable`). A time that is typed with the other season's offset comes back an hour away
(`OfItsSeason`; the season of a time is that of its moment, which in the hours before a
change of season need not be that of its date). Minutes of a switching programme come back
in tens, and of an odd number of points the last is dropped (`Completed`).

### Config

One process that reads documents, one after the other. `read` is the document as far as it
has been read, `tcmds` and `tdevs` are the lists under construction (`TcmdPtr`,
`TdevPtr`), `conf` those in force (`cmdPtr`, `devPtr`). A node has its `type`, which is
the one character flag of the code, and the strings its fields point to; a string is named
by the load, the element and the field it was allocated for, so that sharing is visible,
and `frees` counts how often it was freed; `overwritten` collects the strings that an
element which stands there again takes the place of. `ReadCommand`, `ReadField` and `ReadDevice` are
turns of `parseCommand`; `CopyDefault` is the merge of the defaults into a device, first
come, first served; `Install` replaces the lists, and `Owns` is what `removeCommandList`
frees with a node of each type. `Compile` adds a string to each node with an address, or
ends the process. A protocol command that no protocol defines, an unknown element and a
default device that is not declared are documents that fail, each in its own place.

*Config.cfg* (passes): every document of up to three elements, then every one of one
element, with two names, two devices, a protocol command that is defined and one that is
not, and the elements `addr`, `unit` and a second `description`, any of them repeated.
`FreedWithItsConfiguration`: when a configuration is replaced, each of its strings is freed
once. Two kinds of string leak, and are never freed: that of an element which a later one
of the same name repeats (`parseCommand` allocates another and forgets the first), and
those of a document that is refused (`parseXMLFile` returns without freeing what it has
built). `NothingDangles`, also where a device shares a description that was repeated later.
`LookupFindsDefinition`: looking up a command of a device gives what the document says of
it, by a definition in terms of the document alone (`Definition`, `Says`).
Three elements are a default with an element and a device, or two commands of one name and
a device; the second load frees the lists of the first. `error` and `precommand` are
treated as `addr` is and left out of the instance. Names and devices are
symmetric. A process that has used up its loads rests, therefore no check of deadlock.

### Reload

Daemon and sessions with a configuration each, which is the number of the document it was
read from. `docs` are the documents the file has held. The steps of a reload by request
are those another process can come between: `ReloadRequest` reads the file,
`Acknowledge` answers the client, `Signal` is `kill(getppid(), SIGHUP)`; `HandleHup` runs
at any instruction of a process it is pending for, and reads the file again. A document
may not parse (the old lists stay), or parse and not compile (the process exits with the
old lists gone). Fork copies the configuration but not the pending signal; a session whose
daemon has ended is an `orphan` and signals nobody.

*Reload.cfg* (passes): two sessions, two edits. `DaemonHasReadIt`: with no signal pending,
the daemon has read a document as new as each session's that is not about to signal it,
although edits, requests and merged signals come between. `RunsItsConfiguration`: no
process replaces its lists while it walks the byte code of one of them.
`DaemonConfigurationIsGood`. `AcknowledgedReachesDaemon`: what a client was told is in
force reaches the daemon, unless the session dies between its answer and the signal. Two
edits are an older and a newer document in force and a newest in the file; the second
session has what the first one's reload made obsolete. A stopped daemon with a document
that does not parse may rest for ever, therefore no check of deadlock.

Fairness: a pending signal is delivered (WF of `HandleHup`), and a session on its way from
reading to signalling is scheduled (WF of `Acknowledge` and `Signal`; neither blocks).

### Client

A client of client.c and the session it talks to. What the session writes are tokens
(prompt, text, error, farewell), each with the command in whose reply it was written and
the commands whose errors it reports; they are `inFlight` until they have `arrived`. The
client reads up to the prompt (`Hears`, `Replied`), throws away what has arrived before it
sends (`Sends`), and gives up at a timeout or the end of the file. Each branch of
`interactive()` is an action that ends with `sendErrMsg` and the prompt (`Prompts`), the
prompt alone (`continue`, `PromptsOnly`) or none. `log` is `errMsg`, as the commands whose
errors it holds and its length, and `errClass`; `LogsOnTheWay` is an error that is logged
while a command executes and may be overcome. A child starts with what the daemon has
logged (`Inherited`). Its last message is as a rule that a client has connected; but a
SIGHUP that is handled between that message (socket.c:145) and `fork()` makes it the error
of a reload that failed, and `sendErrMsg` puts this error before the reply to the session's
first command. `inherited` keeps `errClass` as it was at the fork. Where the connection was
reset, the failed read of `recvSync` (client.c:77) and the end of the file that the next
one finds are one step (`FindsEof`).

*Client.cfg* (passes): every list of up to three commands of six kinds, a buffer of 14
bytes and messages of one and nine, so that it is filled to the last byte and overflows.
`ImplementsCalls`: the refinement of Calls, with two exceptions: a reload that fails,
because its text comes before the errors and vclient takes it for a success, and the first
command after an inherited error, whose reply begins with ERR whatever it did.
`ErrorsOfOwnCommand`, `ErrMsgFits`, `ClientReturns`, `SessionFollows`. Three commands are
one that leaves something behind, its victim, and one after that. What lies in the daemon's
buffer is any length.

Fairness: both processes run (WF); the network need not deliver, so that the client must
return by its alarm. That a session learns of its client's end is taken from TCP: a client
whose machine vanishes keeps its session, and the lock, for ever.

## What is proved

All theorems hold for every value of the constants that meets the named assumptions.

* **Sessions** (assumptions: SEMVMX is positive, the sessions are finitely many). The inductive invariant says, besides
  types, that while nothing has been over-released every session is charged for the lock
  exactly when it is at a place where it holds it, and that value and charges add up to
  one. Exclusion alone is not inductive: it takes the balance of value and adjustments
  to know that a second session cannot get the lock, and the charge of each place to know
  that a release or a death gives back what was taken. From it follow `TypeCorrect`,
  `LinkIsExclusive`, `LinkCharged`, and `LinkLockImplemented`, step by step.
  `LockIsNeverLost` has no such exemption: releases may exceed acquisitions as often as
  they like, so value and adjustments are balanced as a sum over all processes (positive
  and negative units are counted as finite sets), and the lemma that all steps need is how
  one changed adjustment changes that sum.
* **Framer** (addresses of 16 bits, lengths of a byte). The invariant ties `addr` to the
  place and to the request: idle unless an answer is awaited, and then the address of the
  request. From it follow `AddressIdle`, `AnswersAreOwn` and `AnswersAreIntact`, for any
  number of telegrams and items. `TypeCorrect` covers program and line. `AnswersAreFresh`
  needs that from the sending of a telegram to its end only items of its own answer are on
  the line, which is what the flush of `my_send` buys on a tty. `ModeFollows` needs, for
  every place of opening and closing, which of the controller's bytes for "not
  initialised" and "OK" can be on the line in which mode.
* **Device** (any patterns and lengths). `AlarmIsContained`: the property is inductive by
  itself, and the proof goes through every way out of `receive()` and shows that no other
  step is taken in it. `UnframedAnswersAreOwn` needs the order of bytes: what a KW command
  has read, continued by what is on the line, is one stream that reader and cable leave as
  it is and to which the controller adds announcements (`Stream`); and a controller that has not heard the SEND 04 refuses the
  request, and its refusal is not what WAIT 05 waits for (`Refused`).
* **ByteCode** (one BYTES node in a program). `TypeCorrect` first. `BadParameterIsHarmless`
  needs that nothing is sent before the conversion, and that a call with a pre command
  reaches its own program only with an outcome of that one. `RoundsAreAlike` (every round
  sends the same bytes at the same statement) needs what each message of a running program
  has been made from, which is not written while it runs. `LinesGoAsWritten` takes two
  hypotheses on each command, that its byte code is what its line means
  (`CompiledAsWritten`, an equation that `RunsAsWritten` checks where the commands of the
  run go) and that neither its BYTES node nor that node's unit is empty
  (`BytesHaveLength`, evaluated by TLC for the run's document). Its invariant says that no
  SEND before the program counter is left out in the round, that the program counter never
  stands at a BYTES node behind a SEND, which takes it along, and that such a node is never
  empty: `NoBytes` gets only into a node that stands alone.
  `RejectedAnswersFail` needs that, while a rejected answer is being retried, a RECV lies
  ahead of the program counter. `ParameterIsWhole` is about the commands that `BytesFit`
  describes: a BYTES node with a unit exactly if the command has one, and otherwise
  standing alone with a length. Others do send what the compiler has left there (see
  above). MCByteCode states as an assumption, which TLC evaluates, that the commands of
  its document fit. The proof needs that whatever overwrites the node between conversion
  and sending is this call's own conversion.
* **Reload** (any number of sessions and edits). The invariant adds to the properties that
  no configuration is newer than the file and that SIGHUP is pending for the daemon alone.
  `ReloadIsRead` is not inductive without the first: a handler that reads the file must
  get something as new as any session has. `NoCommandOfFreedConfiguration` needs the
  second. `DaemonUsesGoodConfiguration`. `TypeCorrect` stands under all three.
* **Client** (lists and messages of any length, any size of `errMsg` from twelve on, which
  the overflow text needs). The invariant says at each place of the session whose errors
  `errMsg` holds and whether the next `sendErrMsg` would send them: at the prompt nothing
  that could be sent is left, though text may be; only before the first line an inherited
  error may. That this line is the first of the list needs the turns below, so that both
  invariants are proved together. From them follow `ErrorsAreOwn` and, with
  the arithmetic of `logIT` as a lemma, `ErrMsgNeverOverflows`. `ImplementsItsCalls` is
  the refinement of Calls. No request and no reply carries a number; they match because
  client and session take turns, which is the invariant (`TakesTurns`): the session is at
  the client's command or one ahead (`Counted`), at most one line is under way to it
  (`OneLine`), and what is under way back ends with the only prompt in it, after an error
  if and only if the command has failed or an inherited one leads (`Turns`).
* **Config** (documents of any length, any number of loads, names and devices). The
  invariant, `OwnershipHolds`, is that the nodes of a load own between them every string
  of the load exactly once (`Sound`), although many nodes point to it, but for those that
  were overwritten, which none owns and some may share, and that the string allocated next
  is new. Each element that is read adds a node or a field that owns what it allocates, or
  takes it from a string that is lost then (`Gone`); the merge adds nodes that own nothing yet; and `compileCommand` gives nodes
  of every type one string of their own. The merge is a fold over the list of defaults,
  which the proof takes apart into the steps of the loop, by the least-number principle
  instead of induction over data. From it follow `FreedOnlyWithConfiguration` (no double
  free, and the leaks are exactly the two named), `NoDanglingStrings` and `TypeCorrect`.
  `LookupIsRight` is what this ownership is kept for: a lookup finds what the
  document says, for documents of any length. Its invariant relates the lists under
  construction to the part read so far (`Link`): the nodes of a list stand for the
  elements that define it, all of them and in their order (`Covers`), and each has the
  texts the document gives it up to there (`Tells`), which later elements do not change,
  except a field that goes to the last default. On a merged list the first node of a name
  is the device's own or a copy of the first default (`Finds`); after the installation the
  lists keep what was found (`Found`), and the compiler adds byte code exactly where there
  is an address (`Addressed`).

* **Units** (any units, memories and typed texts that meet the assumptions above, any
  `Calculate`). `TextsAreReadBack` is `SetIsReadBack` for all units but the numeric ones.
  The invariant says that the memory holds bytes a time can be read from, that what was
  shown is a text the program can show, so that it may be typed again, and that what was
  written comes back whatever the host's season is at the time of the next get (`Comes`).
  It rests on three arguments. *Time*: an hour added to a date and one taken from it cancel
  each other at every midnight, end of month, leap day and end of year
  (`HourForthAndBack`, `HourBackAndForth`), so that the two corrections of `setSysTime()`
  give back the date typed, whatever the present season (`SeasonKept`); and `bcd2dec`
  undoes `dec2bcd` up to 79 (`BcdKept`, `DateKept`). *Words*: the first entry for a word
  has bytes whose first entry has that word (`WordKept`), which is what the assumption on
  enumerations is for. *Switching programmes*: the loop of `setCycleTime()` is a fold,
  taken apart into its turns without an induction over data (`FoldExists`, `LoopSteps`);
  its invariant (`Filling`) says which cells are filled after k points and when the next
  turn skips one, and `PointsKept` that reading the cells gives the points back. Nothing is
  claimed of a programme that is written back as it was shown.

Only model-checked: that Compiler makes of a line what SendLines says it means, because
their recursive functions would need an induction over data; of Units the numeric part of
`SetIsReadBack`, and `WriteBackNearby`, `OneBitSet` and `ShowsMeaning`, which are about
powers of two and 256, shifts and masks, and the recursive descent of Arithmetic, all out
of the provers' reach; and the liveness properties, which are so as well.

## Not modelled, and why

A daemon that dies without its handler, by SIGKILL or by the `exit(3)` of a compilation
that fails after SIGHUP: it leaves its semaphore set behind, which its sessions go on using,
and a daemon that is started again makes another one, so that there are two locks for one
link, as there are in Sessions with the orphans after SIGTERM; an operator who signals a
session instead of the daemon; the answer "No hex string" of `interactive()` in ByteCode,
which nothing leads to, as `string2chr()` returns a count and never -1; a leap second in a time that is typed;
--nodaemon (one process serves its clients in turn; its semaphore operations and byte code
are those of one long session); what a P300 session reads after a file has sent 04 on its
device (any bytes, `Junk`), and the preset status in `framer_waitfor()` (no P300 protocol
waits); a program with several BYTES nodes and a command with an address whose protocol
command has no send line (no configuration has either); the lists of protocols, macros and
units and the strings of `<config>` (nothing shares them; some of `<config>` are never
freed); the device name, which points into the configuration that a reload frees; SIGHUP
before the daemon has forked; the nested `parseCommand` of a device that fails (the code
goes on, as with fewer elements); a `<device>` in a command that has no description
yet (the code reads a null pointer), and sections that a document has twice;
debug output to the client; wording and layout of answers, precision and unit name of a
shown value; texts that are no calculations, division by a byte that is 0, and integers
beyond 30 bits; the settings of tty and sockets.

initsem() waits for another creator of the same semaphore; every daemon makes a key of its
own, and the loop has no state. vsim is a test aid without state but its position in the
input. Nothing about building and packaging has behaviour of the running system.

## Plan

1. Reload: SIGHUP during the start of the daemon, and the device name.
2. A KW session on a TCP device whose stale bytes survive: how far the error strings of the
   configurations catch them.
3. Proofs about numbers: Float32 by cases of the exponent, as a step towards the numeric
   part of `SetIsReadBack`.
