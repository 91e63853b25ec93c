------------------------------- MODULE Client -------------------------------
(***************************************************************************)
(* A client of client.c in dialogue with its session of vcontrold.  The    *)
(* client waits for the prompt, sends one command, and takes all it reads  *)
(* until the next prompt for the reply; it gives up when nothing comes for *)
(* CL_TIMEOUT seconds.  The session collects the errors it logs in errMsg, *)
(* and sendErrMsg() puts them into the reply if the last message logged    *)
(* was an error.                                                           *)
(*                                                                         *)
(* What the session writes is a sequence of tokens; each says what it is,  *)
(* the command in whose reply it was written (0: none yet), and the        *)
(* commands whose errors it reports.  Texts are told apart by nothing      *)
(* else.  `detail', `help' and the like are "text" commands.               *)
(***************************************************************************)
EXTENDS Naturals, Sequences

CONSTANTS
  ErrMsgSize,    \* sizeof(errMsg)
  MessageLen,    \* the lengths of the messages that are logged
  MaxCommands    \* bound: the length of the list of commands

ASSUME SizeAssumption == ErrMsgSize \in Nat /\ ErrMsgSize >= 12
ASSUME MessageAssumption == MessageLen \subseteq Nat
ASSUME CommandsAssumption == MaxCommands \in Nat \ {0}

\* A command of the XML file, one that is answered from memory, one that is not
\* known, and the requests whose replies have another shape.
CommandKind == {"xml", "text", "unknown", "reload", "raw", "quit"}

VARIABLES
  commands,   \* the list sendTrList() works through
  cpc,        \* where the client is
  next,       \* the command it is at
  heard,      \* what recvSync() has read since the last prompt
  results,    \* what it has made of the replies
  arrived,    \* what the client's socket holds
  inFlight,   \* what the session has written and has not arrived
  toServer,   \* the lines the session has not read; 0 is disconnectServer's quit
  spc,        \* where the session is
  current,    \* the command it handles
  executed,   \* the outcomes of the commands it has handled
  log,        \* errMsg (whose errors, how long) and errClass
  inherited   \* errClass as it was at fork(); never changes

clientVars  == <<commands, cpc, next, heard, results>>
channel     == <<arrived, inFlight, toServer>>
sessionVars == <<spc, current, executed, log, inherited>>
vars == <<clientVars, channel, sessionVars>>

Token == [kind : {"prompt", "text", "err", "bye"},
          of : 0..MaxCommands, errors : SUBSET (0..MaxCommands)]

ClientPlace  == {"greet", "send", "wait", "bye", "ok", "failed"}
SessionPlace == {"greet", "read", "handle", "execute", "closing", "reply", "bare", "raw",
                 "leave", "gone"}

Log == [errors : SUBSET (0..MaxCommands), len : Nat, class : {"err", "info", "sent"}]

ClientIsGone == cpc \in {"ok", "failed"}

TypeOK ==
  /\ commands \in Seq(CommandKind) /\ Len(commands) \in 1..MaxCommands
  /\ cpc \in ClientPlace /\ next \in 1..(Len(commands) + 1)
  /\ heard \in Seq(Token) /\ arrived \in Seq(Token) /\ inFlight \in Seq(Token)
  /\ results \in Seq([of : SUBSET (0..MaxCommands), err : BOOLEAN])
  /\ toServer \in Seq(0..MaxCommands)
  /\ spc \in SessionPlace /\ current \in 0..MaxCommands
  /\ executed \in Seq([of : 1..MaxCommands, failed : BOOLEAN])
  /\ log \in Log /\ inherited \in {"info", "err"}

-----------------------------------------------------------------------------
(* common.c.  A log is what errMsg and errClass hold.                      *)

NoErrors == [errors |-> {}, len |-> 0, class |-> "sent"]

\* Variant: the room for the line feed is forgotten.
Added_NoLineFeed(len, n) ==
  LET avail == ErrMsgSize - 1 - len
  IN IF avail > 0 THEN len + (IF n < avail THEN n ELSE avail) + 1 ELSE ErrMsgSize - 3

\* strlen(errMsg) after a message of n characters: strncat() of what fits, and a line
\* feed; or nine characters of overflow, written at twelve before the end.
Added(len, n) ==
  IF len + 2 < ErrMsgSize
  THEN LET avail == ErrMsgSize - 2 - len
       IN len + (IF n < avail THEN n ELSE avail) + 1
  ELSE ErrMsgSize - 3

\* logIT() of an error by command k, and of anything less than an error.
LogError(l, k, n) ==
  [errors |-> l.errors \cup {k}, len |-> Added(l.len, n), class |-> "err"]
LogInfo(l) == [l EXCEPT !.class = "info"]

\* sendErrMsg(): what it sends in the reply to command k, and what it leaves behind.
ErrMsgSent(l, k) ==
  IF l.class = "err" THEN <<[kind |-> "err", of |-> k, errors |-> l.errors]>> ELSE <<>>

\* Variant: only a message that was sent is cleared.
AfterErrMsg_OnlySent(l) == IF l.class = "err" THEN NoErrors ELSE l

AfterErrMsg(l) ==
  [NoErrors EXCEPT !.class = IF l.class = "err" THEN "sent" ELSE l.class]

\* What the daemon has logged, and the child inherits.  The last message is that a
\* client has connected; unless sigHupHandler() runs between that one and fork(), and
\* the reload fails.
Inherited == {[NoErrors EXCEPT !.class = "info"]} \cup
             [errors : {{0}}, len : 2..(ErrMsgSize - 1), class : {"info", "err"}]

-----------------------------------------------------------------------------
Init == /\ commands \in UNION {[1..n -> CommandKind] : n \in 1..MaxCommands}
        /\ cpc = "greet" /\ next = 1 /\ heard = <<>> /\ results = <<>>
        /\ arrived = <<>> /\ inFlight = <<>> /\ toServer = <<>>
        /\ spc = "greet" /\ current = 0 /\ executed = <<>>
        /\ log \in Inherited /\ inherited = log.class

Said(kind) == <<[kind |-> kind, of |-> current, errors |-> {}]>>

\* Writen(): what is written to a socket that the client has closed is lost.  That it may
\* log an error then is left out: nobody is left to read it.
Written(tokens) == IF ClientIsGone THEN <<>> ELSE inFlight \o tokens
Writes(tokens) ==
  /\ inFlight' = Written(tokens)
  /\ UNCHANGED <<arrived, toServer, clientVars>>

-----------------------------------------------------------------------------
(* interactive().                                                          *)

\* The first prompt.
Greets == /\ spc = "greet" /\ spc' = "read"
          /\ Writes(Said("prompt"))
          /\ UNCHANGED <<current, executed, log, inherited>>

\* Readline() has a line.  What is left of errors is dealt with before the command is
\* looked at, and logged.
ReadsLine ==
  /\ spc = "read" /\ toServer # <<>>
  /\ spc' = "handle" /\ current' = Head(toServer) /\ toServer' = Tail(toServer)
  /\ inFlight' = Written(ErrMsgSent(log, Head(toServer)))
  /\ log' = LogInfo(AfterErrMsg(log))
  /\ UNCHANGED <<arrived, clientVars, executed, inherited>>

\* Variant: in raw mode, the end of the file is taken for an empty line.
ReadsEof_NotInRaw ==
  /\ spc = "read" /\ toServer = <<>> /\ ClientIsGone
  /\ spc' = "leave"
  /\ UNCHANGED <<clientVars, channel, current, executed, log, inherited>>

\* Readline() finds the end of the file, in raw mode too, which returns to the prompt.
ReadsEof ==
  /\ spc \in {"read", "raw"} /\ toServer = <<>> /\ ClientIsGone
  /\ spc' = IF spc = "raw" THEN "reply" ELSE "leave"
  /\ UNCHANGED <<clientVars, channel, current, executed, log, inherited>>

\* A command that may take time: it waits for lock and device, or reads the file.
Begins ==
  /\ spc = "handle" /\ current > 0 /\ commands[current] \in {"xml", "text", "reload"}
  /\ spc' = "execute"
  /\ UNCHANGED <<clientVars, channel, current, executed, log, inherited>>

\* An error is logged on the way; it may be overcome.
LogsOnTheWay ==
  /\ spc \in {"execute", "closing"}
  /\ \E n \in MessageLen : log' = LogError(log, current, n)
  /\ UNCHANGED <<clientVars, channel, spc, current, executed, inherited>>

\* At this place, the present command is of this kind and ends as it does.
Handled(place, kind, failed) ==
  /\ spc = place /\ current > 0 /\ commands[current] = kind
  /\ executed' = Append(executed, [of |-> current, failed |-> failed])
  /\ UNCHANGED <<current, inherited>>

\* Byte code was executed: a value or nothing is written, and something that is no
\* error is logged last.
XmlSucceeds ==
  /\ Handled("execute", "xml", FALSE)
  /\ \E text \in {<<>>, Said("text")} : Writes(text)
  /\ spc' = "reply" /\ log' = LogInfo(log)

\* An error is logged and, with those before it, sent at once.
ReportsError ==
  \E n \in MessageLen : LET l == LogError(log, current, n)
                        IN Writes(ErrMsgSent(l, current)) /\ log' = AfterErrMsg(l)

\* The byte code fails; the prompt follows.
XmlFails == Handled("execute", "xml", TRUE) /\ ReportsError /\ spc' = "reply"

\* The parameter is no hex string.
HexFails == Handled("handle", "xml", TRUE) /\ ReportsError /\ spc' = "bare"

\* The device does not open and is closed, which may log more.
OpenFails == Handled("execute", "xml", TRUE) /\ ReportsError /\ spc' = "closing"

\* The release of the lock is logged last.
Closed == /\ spc = "closing" /\ spc' = "bare"
          /\ log' = LogInfo(log)
          /\ UNCHANGED <<clientVars, channel, current, executed, inherited>>

\* The pre command fails: no prompt follows, the loop is left.
PrecmdFails == Handled("execute", "xml", TRUE) /\ ReportsError /\ spc' = "leave"

\* help, version, device, close and the like; `unit off' and `debug on' say nothing.
AnswersText ==
  /\ Handled("execute", "text", FALSE)
  /\ \E text \in {<<>>, Said("text")} : Writes(text)
  /\ spc' = "reply" /\ log' = LogInfo(log)

\* "ERR: command unknown" is written without being logged, for what `detail' does not
\* find as well.
AnswersUnknown ==
  /\ \E kind \in {"unknown", "text"} : Handled("handle", kind, TRUE)
  /\ Writes(<<[kind |-> "err", of |-> current, errors |-> {current}]>>)
  /\ spc' = "reply" /\ UNCHANGED log

\* A reload is answered by a text in any case; its errors come behind that.
AnswersReload ==
  /\ \/ Handled("execute", "reload", FALSE) /\ log' = LogInfo(log)
     \/ /\ Handled("execute", "reload", TRUE)
        /\ \E n \in MessageLen : log' = LogError(log, current, n)
  /\ Writes(Said("text"))
  /\ spc' = "reply"

\* rawModus() reads lines without answering until there is an END.
EntersRaw == /\ Handled("handle", "raw", FALSE)
             /\ spc' = "raw" /\ log' = LogInfo(log)
             /\ UNCHANGED <<clientVars, channel>>

\* There is no temporary file to keep the lines in.
RawFails == /\ Handled("handle", "raw", TRUE)
            /\ \E n \in MessageLen : log' = LogError(log, current, n)
            /\ spc' = "reply"
            /\ UNCHANGED <<clientVars, channel>>

\* quit: the session ends without a prompt.
Quits ==
  /\ \/ Handled("handle", "quit", FALSE)
     \/ spc = "handle" /\ current = 0 /\ UNCHANGED <<current, executed, inherited>>
  /\ Writes(Said("bye"))
  /\ spc' = "gone" /\ UNCHANGED log

\* The end of the loop: errors, and the prompt.
Prompts ==
  /\ spc = "reply" /\ spc' = "read"
  /\ Writes(ErrMsgSent(log, current) \o Said("prompt"))
  /\ log' = AfterErrMsg(log)
  /\ UNCHANGED <<current, executed, inherited>>

\* The prompt after an error that has been sent already, and `continue'.
PromptsOnly ==
  /\ spc = "bare" /\ spc' = "read"
  /\ Writes(Said("prompt"))
  /\ UNCHANGED <<current, executed, log, inherited>>

\* The client is gone, and the prompt cannot be written.
PromptFails ==
  /\ spc \in {"reply", "bare"} /\ ClientIsGone
  /\ spc' = "gone"
  /\ UNCHANGED <<clientVars, channel, current, executed, log, inherited>>

\* The session ends after the loop.
Leaves ==
  /\ spc = "leave" /\ spc' = "gone"
  /\ Writes(ErrMsgSent(log, current))
  /\ log' = AfterErrMsg(log)
  /\ UNCHANGED <<current, executed, inherited>>

\* The session's process ends anywhere: killed, or by exit() after a failed semop().
SessionDies ==
  /\ spc # "gone" /\ spc' = "gone"
  /\ UNCHANGED <<clientVars, channel, current, executed, log, inherited>>
-----------------------------------------------------------------------------
(* recvSync(), sendTrList() and disconnectServer() in the client.          *)

\* The bytes of one token reach the client's socket; they may take any time.
Arrives ==
  /\ inFlight # <<>> /\ ~ClientIsGone
  /\ arrived' = Append(arrived, Head(inFlight)) /\ inFlight' = Tail(inFlight)
  /\ UNCHANGED <<clientVars, sessionVars, toServer>>

Awaited == IF cpc = "bye" THEN "bye" ELSE "prompt"
Waiting == cpc \in {"greet", "wait", "bye"}

\* recvSync() reads on; its alarm is set anew with each character.
Hears ==
  /\ Waiting /\ arrived # <<>> /\ Head(arrived).kind # Awaited
  /\ heard' = Append(heard, Head(arrived)) /\ arrived' = Tail(arrived)
  /\ UNCHANGED <<commands, cpc, next, results, inFlight, toServer, sessionVars>>

\* It has found the text it waits for.
Found == Waiting /\ arrived # <<>> /\ Head(arrived).kind = Awaited

\* The client's process ends and its socket is closed.
Ends(status) ==
  /\ cpc' = status
  /\ arrived' = <<>> /\ inFlight' = <<>>
  /\ UNCHANGED <<commands, next, heard, results, toServer, sessionVars>>

Greeted ==
  /\ cpc = "greet" /\ Found
  /\ cpc' = "send" /\ heard' = <<>> /\ arrived' = Tail(arrived)
  /\ UNCHANGED <<commands, next, results, inFlight, toServer, sessionVars>>

\* sendServer() throws away what has arrived (not what is under way) and sends a line.
Sends(line, place) ==
  /\ arrived' = <<>> /\ toServer' = Append(toServer, line)
  /\ cpc' = place /\ heard' = <<>>
  /\ UNCHANGED <<commands, next, results, inFlight, sessionVars>>

SendsCommand == cpc = "send" /\ next <= Len(commands) /\ Sends(next, "wait")
Disconnects  == cpc = "send" /\ next > Len(commands) /\ Sends(0, "bye")

\* The session has closed the socket: the line cannot be written, which is a failure
\* unless it is `quit'; or SIGPIPE ends vclient.
SendFails ==
  /\ cpc = "send" /\ spc = "gone"
  /\ \E status \in {"failed"} \cup (IF next > Len(commands) THEN {"ok"} ELSE {}) :
       Ends(status)

\* What the reply is taken for: an error if it begins like one.
Reply == [of  |-> {heard[i].of : i \in DOMAIN heard} \cup {Head(arrived).of},
          err |-> heard # <<>> /\ Head(heard).kind = "err"]

\* Variant: after the last command the list is entered again.
Replied_OnePast ==
  /\ cpc = "wait" /\ Found
  /\ results' = Append(results, Reply) /\ next' = next + 2
  /\ cpc' = "send" /\ heard' = <<>> /\ arrived' = Tail(arrived)
  /\ UNCHANGED <<commands, inFlight, toServer, sessionVars>>

\* The prompt after a command: its reply is filed, the next command is at hand.
Replied ==
  /\ cpc = "wait" /\ Found
  /\ results' = Append(results, Reply) /\ next' = next + 1
  /\ cpc' = "send" /\ heard' = <<>> /\ arrived' = Tail(arrived)
  /\ UNCHANGED <<commands, inFlight, toServer, sessionVars>>

\* Variant: the -1 of a timeout is not told from a count of characters.
TimesOut_GoesOn ==
  /\ Waiting /\ arrived = <<>>
  /\ IF cpc = "wait"
     THEN /\ cpc' = "send" /\ next' = next + 1
          /\ results' = Append(results, [of |-> {next}, err |-> FALSE])
          /\ UNCHANGED <<commands, heard, channel, sessionVars>>
     ELSE Ends(IF cpc = "bye" THEN "ok" ELSE "failed")

\* Variant: the alarm is not set again after the first character.
TimesOut_FirstOnly ==
  /\ Waiting /\ arrived = <<>> /\ heard = <<>>
  /\ Ends(IF cpc = "bye" THEN "ok" ELSE "failed")

\* CL_TIMEOUT passes while the read waits, and SIGALRM jumps out of it.  Only the
\* answer to quit is not cared for.
TimesOut ==
  /\ Waiting /\ arrived = <<>>
  /\ Ends(IF cpc = "bye" THEN "ok" ELSE "failed")

\* The session has closed the socket, and everything it wrote has been read.  Where the
\* connection was reset the read fails instead, and the next one finds the end: one step.
FindsEof ==
  /\ Waiting /\ arrived = <<>> /\ inFlight = <<>> /\ spc = "gone"
  /\ Ends(IF cpc = "bye" THEN "ok" ELSE "failed")

\* "good bye!"; the socket is closed.
Finishes == cpc = "bye" /\ Found /\ Ends("ok")

ClientDies == ~ClientIsGone /\ Ends("failed")

-----------------------------------------------------------------------------
ClientStep == \/ Greeted \/ Hears \/ Replied \/ SendsCommand \/ Disconnects
              \/ SendFails \/ TimesOut \/ FindsEof \/ Finishes

SessionStep == \/ Greets \/ ReadsLine \/ ReadsEof \/ Begins
               \/ XmlSucceeds \/ XmlFails \/ HexFails \/ OpenFails \/ Closed \/ PrecmdFails
               \/ AnswersText \/ AnswersUnknown \/ AnswersReload
               \/ EntersRaw \/ RawFails \/ Quits
               \/ Prompts \/ PromptsOnly \/ PromptFails \/ Leaves

\* Both are through.
Over == ClientIsGone /\ spc = "gone" /\ UNCHANGED vars

Next == \/ ClientStep \/ SessionStep \/ LogsOnTheWay \/ Arrives
        \/ SessionDies \/ ClientDies \/ Over

Spec == Init /\ [][Next]_vars

\* Both processes run, and the session's lock and device let its commands end (modules
\* Sessions, Framer and ByteCode); nothing says that the network delivers.
FairSpec == Spec /\ WF_vars(ClientStep) /\ WF_vars(SessionStep)

-----------------------------------------------------------------------------
(* Properties.                                                             *)

\* The result of a command is what the session answered to this command, and counts as
\* an error exactly if the command failed; commands are executed in order, at most
\* once, and the list is reported as done only if all of it was.  Two exceptions: the
\* text of a failed `reload' hides the error behind it, so that it looks like a success;
\* and an error inherited from the daemon stands before the reply to the first command.
Outcome(e) == [of  |-> {e.of}, err |-> \/ e.failed /\ commands[e.of] # "reload"
                                       \/ inherited = "err" /\ e.of = 1]
Promise == INSTANCE Calls WITH
  number   <- Len(commands),
  executed <- [i \in 1..Len(executed) |-> Outcome(executed[i])],
  returned <- results,
  status   <- IF ClientIsGone THEN cpc ELSE "running"
ImplementsCalls == Promise!Spec

\* The errors in a reply were logged by the command it is the reply to, and not by an
\* earlier one that succeeded in the end.  Errors of the daemon are reported only if the
\* last message before the fork was one, and then with the first command.
Own(tokens) ==
  \A i \in DOMAIN tokens :
    \/ tokens[i].errors \subseteq {tokens[i].of}
    \/ inherited = "err" /\ tokens[i].of = 1 /\ tokens[i].errors = {0}
ErrorsOfOwnCommand == Own(inFlight) /\ Own(arrived) /\ Own(heard)

\* errMsg and its terminator fit, whatever is logged and however often nobody reads it.
ErrMsgFits == log.len < ErrMsgSize

\* The client's call returns, even if the network stops delivering in the middle of a
\* reply, or nothing answers.
ClientReturns == <>ClientIsGone

\* No session outlives its client, wherever the client has left it.
SessionFollows == ClientIsGone ~> spc = "gone"
=============================================================================
