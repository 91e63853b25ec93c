---------------------------- MODULE ClientProofs ----------------------------
(***************************************************************************)
(* Theorems about Client, for lists of any length, any size of errMsg and  *)
(* messages of any length: errMsg never overflows, every reply carries the *)
(* errors of its own command only, but for an inherited one in the first,  *)
(* and client and session implement Calls.                                 *)
(***************************************************************************)
EXTENDS Client, SequenceTheorems, TLAPS

\* errMsg and its terminator stay within the buffer.
LEMMA AddedFits ==
  ASSUME NEW len \in Nat, len < ErrMsgSize, NEW n \in Nat
  PROVE  Added(len, n) \in Nat /\ Added(len, n) < ErrMsgSize
BY SizeAssumption DEF Added

\* Whose errors errMsg may hold, and whether the next sendErrMsg() would send them.
LogIsOwn ==
  /\ spc \in {"greet", "read"} =>
       /\ log.class = "err" <=> inherited = "err" /\ executed = <<>>
       /\ log.class = "err" => log.errors = {0}
  /\ spc \in {"closing", "reply", "bare", "raw"} => executed # <<>>
  /\ spc = "bare" => log.class # "err"
  /\ spc \in {"handle", "execute", "closing", "reply", "raw"} =>
       log.errors \subseteq {current}
  /\ spc = "leave" => log.class # "err" \/ log.errors \subseteq {current} \/ ClientIsGone

\* A reply is awaited for a command of the list only.
InList == cpc = "wait" => next <= Len(commands)

IInv == TypeOK /\ InList /\ ErrMsgFits /\ LogIsOwn /\ ErrorsOfOwnCommand

-----------------------------------------------------------------------------
(***************************************************************************)
(* Nothing in the protocol numbers a request or a reply.  What makes them  *)
(* match is that client and session take turns: at any time there is at    *)
(* most one line on its way to the session, and what is on its way back    *)
(* ends with the only prompt in it.                                        *)
(***************************************************************************)

\* What the session has written since the client last was at a prompt.
Pipe == heard \o arrived \o inFlight

Answered(q) == q # <<>> /\ Head(q).kind = "err"
NoPrompt(q) == \A i \in DOMAIN q : q[i].kind # "prompt"

\* The command that was executed last, as its caller sees it.
LooksFailed(e) == \/ e.failed /\ commands[e.of] # "reload"
                  \/ inherited = "err" /\ e.of = 1
ItFailed == LooksFailed(executed[Len(executed)])

\* The reply to the command at hand begins with an inherited error.
Led == inherited = "err" /\ next = 1

\* Client and session are at the same command of the list, or the session one ahead.
Counted ==
  /\ Len(results) = next - 1
  /\ Len(executed) \in {next - 1, next}
  /\ \A i \in DOMAIN executed : executed[i].of = i
  /\ cpc = "bye" => next > Len(commands)

\* A line is under way only while the session waits for one, and a command is executed
\* that was not yet.
OneLine ==
  /\ toServer # <<>> =>
       /\ spc \in {"read", "gone"}
       /\ \/ toServer = <<0>>
          \/ toServer = <<next>> /\ next <= Len(commands) /\ Len(executed) = next - 1
  /\ spc \in {"handle", "execute"} /\ current > 0 =>
       current = next /\ next <= Len(commands) /\ Len(executed) = next - 1

\* Before the first prompt, between a prompt and the next line, and while a line is under
\* way to the session.
Greeting ==
  /\ toServer = <<>> /\ current = 0 /\ executed = <<>> /\ next = 1
  /\ \/ Pipe = <<>> /\ spc \in {"greet", "gone"}
     \/ Len(Pipe) = 1 /\ spc \in {"read", "gone"}

Between ==
  toServer = <<>> /\ Pipe = <<>> /\ spc \in {"read", "gone"} /\ Len(executed) = next - 1

Asked == toServer = <<next>> /\ Pipe = <<>>

\* The session has the line.  What it has written is of this command; when it comes to
\* the prompt, an error stands first if and only if the command looks failed.
Answering ==
  /\ toServer = <<>> /\ current = next /\ spc # "greet"
  /\ \A i \in DOMAIN Pipe : /\ Pipe[i].of = next
                            /\ Pipe[i].kind = "prompt" => i = Len(Pipe)
  /\ spc \in {"handle", "execute"} => IF Led THEN Answered(Pipe) ELSE Pipe = <<>>
  /\ spc \notin {"read", "gone"} => NoPrompt(Pipe)
  /\ spc \in {"reply", "bare", "closing", "leave", "raw"} => Len(executed) = next
  /\ spc \in {"bare", "closing"} => (Answered(Pipe) <=> ItFailed)
  /\ spc = "reply" => (Answered(Pipe \o ErrMsgSent(log, current)) <=> ItFailed)
  /\ ~NoPrompt(Pipe) => Len(executed) = next /\ (Answered(Pipe) <=> ItFailed)

Turns == /\ cpc = "greet" => Greeting
         /\ cpc = "send" => Between
         /\ cpc = "wait" => Asked \/ Answering

CInv == Counted /\ OneLine /\ Turns

-----------------------------------------------------------------------------
(* What the operators on logs and tokens return.                           *)

\* A log with an error more is a log, and the error counts as command k's.
LEMMA LogErrorLog ==
  ASSUME NEW l \in Log, l.len < ErrMsgSize, NEW k \in 0..MaxCommands, NEW n \in MessageLen
  PROVE  /\ LogError(l, k, n) \in Log
         /\ LogError(l, k, n).len < ErrMsgSize
         /\ l.errors \subseteq {k} => LogError(l, k, n).errors \subseteq {k}
<1>1. n \in Nat
  BY MessageAssumption
<1>2. l.len \in Nat /\ l.errors \subseteq 0..MaxCommands
  BY DEF Log
<1>3. Added(l.len, n) \in Nat /\ Added(l.len, n) < ErrMsgSize
  BY <1>1, <1>2, AddedFits
<1>4. QED
  BY <1>2, <1>3 DEF LogError, Log

LEMMA LogInfoLog ==
  ASSUME NEW l \in Log
  PROVE  /\ LogInfo(l) \in Log
         /\ LogInfo(l).len = l.len /\ LogInfo(l).errors = l.errors
         /\ LogInfo(l).class = "info"
BY DEF LogInfo, Log

\* sendErrMsg() leaves nothing that could be sent again.
LEMMA AfterErrMsgLog ==
  ASSUME NEW l \in Log
  PROVE  /\ AfterErrMsg(l) \in Log
         /\ AfterErrMsg(l).len = 0 /\ AfterErrMsg(l).errors = {}
         /\ AfterErrMsg(l).class # "err"
BY DEF AfterErrMsg, NoErrors, Log

\* A token that reports errors of command k only is a token of its own.
LEMMA ErrMsgSentOwn ==
  ASSUME NEW l \in Log, NEW k \in 0..MaxCommands,
         \/ l.class # "err" \/ l.errors \subseteq {k}
         \/ k = 1 /\ inherited = "err" /\ l.errors = {0}
  PROVE  ErrMsgSent(l, k) \in Seq(Token) /\ Own(ErrMsgSent(l, k))
<1>1. CASE l.class # "err"
  BY <1>1 DEF ErrMsgSent, Own
<1>2. CASE l.class = "err"
  <2> DEFINE t == [kind |-> "err", of |-> k, errors |-> l.errors]
  <2>1. ErrMsgSent(l, k) = <<t>>
    BY <1>2 DEF ErrMsgSent
  <2>2. /\ t \in Token
        /\ t.errors \subseteq {t.of} \/ (inherited = "err" /\ t.of = 1 /\ t.errors = {0})
    BY <1>2 DEF Token, Log
  <2>3. QED
    BY <2>1, <2>2 DEF Own
<1>3. QED
  BY <1>1, <1>2

LEMMA SaidOwn ==
  ASSUME current \in 0..MaxCommands, NEW kind \in {"prompt", "text", "bye"}
  PROVE  Said(kind) \in Seq(Token) /\ Own(Said(kind))
BY DEF Said, Token, Own

LEMMA OwnConcat ==
  ASSUME NEW q \in Seq(Token), NEW r \in Seq(Token), Own(q), Own(r)
  PROVE  q \o r \in Seq(Token) /\ Own(q \o r)
<1>1. q \o r \in Seq(Token)
  OBVIOUS
<1>2. ASSUME NEW i \in DOMAIN (q \o r)
      PROVE  \/ (q \o r)[i].errors \subseteq {(q \o r)[i].of}
             \/ inherited = "err" /\ (q \o r)[i].of = 1 /\ (q \o r)[i].errors = {0}
  <2>1. CASE i <= Len(q)
    <3>1. i \in DOMAIN q /\ (q \o r)[i] = q[i]
      BY <1>2, <2>1
    <3>2. QED
      BY <3>1 DEF Own
  <2>2. CASE i > Len(q)
    <3>1. i - Len(q) \in DOMAIN r /\ (q \o r)[i] = r[i - Len(q)]
      BY <1>2, <2>2
    <3>2. QED
      BY <3>1 DEF Own
  <2>3. QED
    BY <1>2, <2>1, <2>2
<1>3. QED
  BY <1>1, <1>2 DEF Own

LEMMA OwnTail ==
  ASSUME NEW q \in Seq(Token), Own(q), q # <<>>
  PROVE  Tail(q) \in Seq(Token) /\ Own(Tail(q)) /\ Head(q) \in Token /\ Own(<<Head(q)>>)
BY DEF Own

LEMMA OwnAppend ==
  ASSUME NEW q \in Seq(Token), Own(q), NEW t \in Token, Own(<<t>>)
  PROVE  Append(q, t) \in Seq(Token) /\ Own(Append(q, t))
BY DEF Own

LEMMA OwnEmpty == <<>> \in Seq(Token) /\ Own(<<>>)
BY DEF Own

\* Writing own tokens keeps the channel in order.
LEMMA WritesOwn ==
  ASSUME TypeOK, ErrorsOfOwnCommand, NEW tokens \in Seq(Token), Own(tokens)
  PROVE  Written(tokens) \in Seq(Token) /\ Own(Written(tokens))
BY OwnConcat, OwnEmpty DEF Written, TypeOK, ErrorsOfOwnCommand
-----------------------------------------------------------------------------
LEMMA InitIInv == Init => IInv
<1> SUFFICES ASSUME Init PROVE IInv
  OBVIOUS
<1>1. commands \in Seq(CommandKind) /\ Len(commands) \in 1..MaxCommands
  <2>1. PICK n \in 1..MaxCommands : commands \in [1..n -> CommandKind]
    BY DEF Init
  <2>2. n \in Nat
    BY <2>1, CommandsAssumption
  <2>3. QED
    BY <2>1, <2>2
<1>2. /\ log \in Log /\ log.len < ErrMsgSize /\ inherited = log.class
      /\ log.class = "err" => log.errors = {0}
      /\ log.class \in {"info", "err"}
  BY SizeAssumption, CommandsAssumption DEF Init, Inherited, NoErrors, Log
<1>3. TypeOK
  BY <1>1, <1>2, CommandsAssumption DEF Init, TypeOK, ClientPlace, SessionPlace
<1>4. QED
  BY <1>2, <1>3 DEF Init, IInv, InList, ErrMsgFits, LogIsOwn, ErrorsOfOwnCommand, Own

\* What an action of the session that writes tokens does to the rest.
LEMMA WritesKeeps ==
  ASSUME IInv, NEW tokens \in Seq(Token), Own(tokens), Writes(tokens),
         inherited' = inherited
  PROVE  /\ inFlight' \in Seq(Token) /\ ErrorsOfOwnCommand'
         /\ InList' /\ UNCHANGED <<arrived, toServer, clientVars>>
<1>1. inFlight' \in Seq(Token) /\ Own(inFlight')
  BY WritesOwn DEF IInv, Writes
<1>2. UNCHANGED <<arrived, toServer, clientVars>>
  BY DEF Writes
<1>3. QED
  BY <1>1, <1>2 DEF IInv, InList, ErrorsOfOwnCommand, clientVars, Own

\* The outcome of a command is filed.
LEMMA HandledKeeps ==
  ASSUME TypeOK, NEW place, NEW kind, NEW failed \in BOOLEAN, Handled(place, kind, failed)
  PROVE  /\ executed' \in Seq([of : 1..MaxCommands, failed : BOOLEAN])
         /\ current' = current /\ current \in 1..MaxCommands /\ spc = place
         /\ inherited' = inherited /\ executed' # <<>>
<1>1. current \in 1..MaxCommands
  BY CommandsAssumption DEF TypeOK, Handled
<1>2. [of |-> current, failed |-> failed] \in [of : 1..MaxCommands, failed : BOOLEAN]
  BY <1>1
<1>3. ASSUME NEW S, NEW q \in Seq(S), NEW x \in S
      PROVE  Append(q, x) \in Seq(S) /\ Append(q, x) # <<>>
  OBVIOUS
<1>4. executed' \in Seq([of : 1..MaxCommands, failed : BOOLEAN]) /\ executed' # <<>>
  BY <1>2, <1>3 DEF TypeOK, Handled
<1>5. QED
  BY <1>1, <1>4 DEF Handled

\* The type invariant after a step of the session, from the types of what it changes.
LEMMA SessionTyped ==
  ASSUME TypeOK, UNCHANGED clientVars, arrived' = arrived,
         toServer' \in Seq(0..MaxCommands), inFlight' \in Seq(Token),
         spc' \in SessionPlace, current' \in 0..MaxCommands,
         executed' \in Seq([of : 1..MaxCommands, failed : BOOLEAN]), log' \in Log,
         inherited' = inherited
  PROVE  TypeOK'
BY DEF TypeOK, clientVars

\* A report of errors is own, and leaves nothing behind.
LEMMA ReportKeeps ==
  ASSUME IInv, ReportsError, log.errors \subseteq {current}, inherited' = inherited
  PROVE  /\ inFlight' \in Seq(Token) /\ ErrorsOfOwnCommand'
         /\ InList' /\ UNCHANGED <<arrived, toServer, clientVars>>
         /\ log' \in Log /\ log'.len = 0 /\ log'.errors = {} /\ log'.class # "err"
<1>1. PICK n \in MessageLen : /\ Writes(ErrMsgSent(LogError(log, current, n), current))
                             /\ log' = AfterErrMsg(LogError(log, current, n))
  BY DEF ReportsError
<1>2. log \in Log /\ current \in 0..MaxCommands /\ log.len < ErrMsgSize
  BY DEF IInv, TypeOK, ErrMsgFits
<1> DEFINE l == LogError(log, current, n)
<1>3. l \in Log /\ l.errors \subseteq {current}
  BY <1>1, <1>2, LogErrorLog
<1>4. ErrMsgSent(l, current) \in Seq(Token) /\ Own(ErrMsgSent(l, current))
  BY <1>2, <1>3, ErrMsgSentOwn
<1>5. /\ inFlight' \in Seq(Token) /\ ErrorsOfOwnCommand'
      /\ InList' /\ UNCHANGED <<arrived, toServer, clientVars>>
  BY <1>1, <1>4, WritesKeeps
<1>6. log' \in Log /\ log'.len = 0 /\ log'.errors = {} /\ log'.class # "err"
  BY <1>1, <1>3, AfterErrMsgLog
<1>7. QED
  BY <1>5, <1>6
-----------------------------------------------------------------------------
(* The session.                                                            *)

\* A session keeps what it has inherited.
LEMMA SessionKeepsInherited ==
  ASSUME SessionStep \/ LogsOnTheWay \/ SessionDies
  PROVE  inherited' = inherited
BY DEF SessionStep, LogsOnTheWay, SessionDies, Greets, ReadsLine, ReadsEof, Begins,
   XmlSucceeds, XmlFails, HexFails, OpenFails, Closed, PrecmdFails, AnswersText,
   AnswersUnknown, AnswersReload, EntersRaw, RawFails, Quits, Prompts, PromptsOnly,
   PromptFails, Leaves, Handled

\* An error that is left when a line is read is the daemon's, and the line is the first.
LEMMA FirstLine ==
  ASSUME IInv, CInv, ReadsLine, ~ClientIsGone
  PROVE  \/ log.class # "err"
         \/ Head(toServer) = 1 /\ inherited = "err" /\ log.errors = {0}
<1> SUFFICES ASSUME log.class = "err"
             PROVE  Head(toServer) = 1 /\ inherited = "err" /\ log.errors = {0}
  OBVIOUS
<1>1. spc = "read" /\ toServer # <<>>
  BY DEF ReadsLine
<1>2. inherited = "err" /\ log.errors = {0} /\ executed = <<>>
  BY <1>1 DEF IInv, LogIsOwn
<1>3. /\ toServer = <<0>> \/ (toServer = <<next>> /\ Len(executed) = next - 1)
      /\ Len(executed) \in {next - 1, next} /\ Len(executed) = 0
      /\ next \in Nat \ {0} /\ Len(commands) \in Nat \ {0}
      /\ cpc \in {"greet", "send", "wait", "bye"}
  BY <1>1, <1>2 DEF CInv, OneLine, Counted, IInv, TypeOK, ClientIsGone, ClientPlace
<1>4. next = 1
  BY <1>3
<1>5. toServer # <<0>>
  <2>1. CASE cpc = "bye"
    BY <1>3, <1>4, <2>1 DEF CInv, Counted
  <2>2. CASE cpc \in {"greet", "send"}
    BY <1>1, <2>2 DEF CInv, Turns, Greeting, Between
  <2>3. CASE cpc = "wait"
    <3>1. toServer = <<next>>
      BY <1>1, <2>3 DEF CInv, Turns, Asked, Answering
    <3> QED
      BY <1>4, <3>1
  <2> QED
    BY <1>3, <2>1, <2>2, <2>3
<1> QED
  BY <1>2, <1>3, <1>4, <1>5

LEMMA SessionPreserves ==
  ASSUME IInv, CInv, SessionStep \/ LogsOnTheWay \/ SessionDies
  PROVE  IInv'
<1> USE DEF SessionPlace
<1>0. inherited' = inherited
  BY SessionKeepsInherited
<1>1. /\ TypeOK /\ InList /\ ErrMsgFits /\ LogIsOwn /\ ErrorsOfOwnCommand
      /\ log \in Log /\ current \in 0..MaxCommands /\ log.len < ErrMsgSize
      /\ toServer \in Seq(0..MaxCommands) /\ inFlight \in Seq(Token)
      /\ executed \in Seq([of : 1..MaxCommands, failed : BOOLEAN])
      /\ spc \in SessionPlace /\ 0 < ErrMsgSize
  BY SizeAssumption DEF IInv, TypeOK, ErrMsgFits
\* Steps that write nothing.
<1>2. ASSUME UNCHANGED <<clientVars, channel>> PROVE InList' /\ ErrorsOfOwnCommand'
  BY <1>0, <1>1, <1>2 DEF InList, ErrorsOfOwnCommand, Own, clientVars, channel
<1>3. ASSUME UNCHANGED <<clientVars, channel>>,
             spc' \in SessionPlace, current' = current,
             executed' \in Seq([of : 1..MaxCommands, failed : BOOLEAN]), log' \in Log
      PROVE  TypeOK'
  BY <1>0, <1>1, <1>3, SessionTyped DEF channel
\* What logging less than an error does.
<1>4. ASSUME log' = LogInfo(log)
      PROVE  log' \in Log /\ log'.len = log.len /\ log'.errors = log.errors
             /\ log'.class = "info"
  BY <1>1, <1>4, LogInfoLog
<1>5. ASSUME Greets PROVE IInv'
  <2>1. Said("prompt") \in Seq(Token) /\ Own(Said("prompt"))
    BY <1>1, SaidOwn
  <2>2. /\ inFlight' \in Seq(Token) /\ ErrorsOfOwnCommand'
        /\ InList' /\ UNCHANGED <<arrived, toServer, clientVars>>
    BY <1>0, <1>5, <2>1, WritesKeeps DEF Greets
  <2>3. TypeOK'
    BY <1>0, <1>1, <1>5, <2>2, SessionTyped DEF Greets
  <2>4. QED
    BY <1>0, <1>1, <1>5, <2>2, <2>3 DEF Greets, IInv, ErrMsgFits, LogIsOwn
<1>6. ASSUME ReadsLine PROVE IInv'
  <2>2. Head(toServer) \in 0..MaxCommands /\ toServer' \in Seq(0..MaxCommands)
    <3>1. ASSUME NEW S, NEW q \in Seq(S), q # <<>>
          PROVE  Head(q) \in S /\ Tail(q) \in Seq(S)
      BY <3>1
    <3>2. toServer # <<>> /\ toServer' = Tail(toServer)
      BY <1>6 DEF ReadsLine
    <3>3. QED
      BY <1>1, <3>1, <3>2
  <2>3. inFlight' \in Seq(Token) /\ Own(inFlight')
    <3>1. inFlight' = Written(ErrMsgSent(log, Head(toServer)))
      BY <1>6 DEF ReadsLine
    <3>2. CASE ClientIsGone
      BY <3>1, <3>2, OwnEmpty DEF Written
    <3>3. CASE ~ClientIsGone
      <4>1. \/ log.class # "err"
            \/ Head(toServer) = 1 /\ inherited = "err" /\ log.errors = {0}
        BY <1>6, <3>3, FirstLine
      <4>2. /\ ErrMsgSent(log, Head(toServer)) \in Seq(Token)
            /\ Own(ErrMsgSent(log, Head(toServer)))
        BY <1>1, <2>2, <4>1, ErrMsgSentOwn
      <4> QED
        BY <1>1, <3>1, <4>2, WritesOwn
    <3>4. QED
      BY <3>2, <3>3
  <2>4. log' \in Log /\ log'.len = 0 /\ log'.errors = {}
    BY <1>1, <1>6, AfterErrMsgLog, LogInfoLog DEF ReadsLine
  <2>5. TypeOK'
    BY <1>0, <1>1, <1>6, <2>2, <2>3, <2>4, SessionTyped DEF ReadsLine
  <2>6. ErrorsOfOwnCommand' /\ InList'
    BY <1>0, <1>1, <1>6, <2>3 DEF ReadsLine, ErrorsOfOwnCommand, InList, Own, clientVars
  <2>7. ErrMsgFits' /\ LogIsOwn'
    BY <1>1, <1>6, <2>4 DEF ReadsLine, ErrMsgFits, LogIsOwn
  <2>8. QED
    BY <2>5, <2>6, <2>7 DEF IInv
<1>7. ASSUME ReadsEof PROVE IInv'
  <2>1. TypeOK' /\ InList' /\ ErrorsOfOwnCommand'
    BY <1>1, <1>2, <1>3, <1>7 DEF ReadsEof
  <2>2. QED
    BY <1>1, <1>7, <2>1
    DEF ReadsEof, IInv, ErrMsgFits, LogIsOwn, ClientIsGone, clientVars
<1>8. ASSUME Begins PROVE IInv'
  <2>1. TypeOK' /\ InList' /\ ErrorsOfOwnCommand'
    BY <1>1, <1>2, <1>3, <1>8 DEF Begins
  <2>2. QED
    BY <1>1, <1>8, <2>1 DEF Begins, IInv, ErrMsgFits, LogIsOwn
<1>9. ASSUME LogsOnTheWay PROVE IInv'
  <2>1. PICK n \in MessageLen : log' = LogError(log, current, n)
    BY <1>9 DEF LogsOnTheWay
  <2>2. log.errors \subseteq {current}
    BY <1>1, <1>9 DEF LogsOnTheWay, LogIsOwn
  <2>3. log' \in Log /\ log'.len < ErrMsgSize /\ log'.errors \subseteq {current}
    BY <1>1, <2>1, <2>2, LogErrorLog
  <2>4. TypeOK' /\ InList' /\ ErrorsOfOwnCommand'
    BY <1>1, <1>2, <1>3, <1>9, <2>3 DEF LogsOnTheWay
  <2>5. QED
    BY <1>1, <1>9, <2>3, <2>4 DEF LogsOnTheWay, IInv, ErrMsgFits, LogIsOwn
<1>10. ASSUME XmlSucceeds PROVE IInv'
  <2>1. PICK text \in {<<>>, Said("text")} : Writes(text)
    BY <1>10 DEF XmlSucceeds
  <2>2. text \in Seq(Token) /\ Own(text)
    BY <1>1, <2>1, OwnEmpty, SaidOwn
  <2>3. /\ inFlight' \in Seq(Token) /\ ErrorsOfOwnCommand'
        /\ InList' /\ UNCHANGED <<arrived, toServer, clientVars>>
    BY <1>0, <2>1, <2>2, WritesKeeps
  <2>4. /\ executed' \in Seq([of : 1..MaxCommands, failed : BOOLEAN])
        /\ current' = current /\ executed' # <<>> /\ spc = "execute" /\ spc' = "reply"
        /\ log' \in Log /\ log'.len = log.len /\ log'.errors = log.errors
    BY <1>1, <1>4, <1>10, HandledKeeps DEF XmlSucceeds
  <2>5. QED
    BY <1>0, <1>1, <2>3, <2>4, SessionTyped DEF IInv, ErrMsgFits, LogIsOwn
\* The commands that fail with a report.
<1>11. ASSUME NEW place \in {"handle", "execute"},
              NEW after \in {"reply", "bare", "closing", "leave"},
              Handled(place, "xml", TRUE), ReportsError, spc' = after
       PROVE  IInv'
  <2>1. /\ executed' \in Seq([of : 1..MaxCommands, failed : BOOLEAN])
        /\ current' = current /\ executed' # <<>> /\ spc = place
    BY <1>1, <1>11, HandledKeeps
  <2>2. log.errors \subseteq {current}
    BY <1>1, <1>11, <2>1 DEF LogIsOwn
  <2>3. /\ inFlight' \in Seq(Token) /\ ErrorsOfOwnCommand'
        /\ InList' /\ UNCHANGED <<arrived, toServer, clientVars>>
        /\ log' \in Log /\ log'.len = 0 /\ log'.errors = {} /\ log'.class # "err"
    BY <1>0, <1>11, <2>2, ReportKeeps
  <2>4. QED
    BY <1>0, <1>1, <1>11, <2>1, <2>3, SessionTyped DEF IInv, ErrMsgFits, LogIsOwn
<1>12. ASSUME Closed PROVE IInv'
  <2>1. TypeOK' /\ InList' /\ ErrorsOfOwnCommand'
    BY <1>1, <1>2, <1>3, <1>4, <1>12 DEF Closed
  <2>2. QED
    BY <1>1, <1>4, <1>12, <2>1 DEF Closed, IInv, ErrMsgFits, LogIsOwn
<1>13. ASSUME AnswersText PROVE IInv'
  <2>1. PICK text \in {<<>>, Said("text")} : Writes(text)
    BY <1>13 DEF AnswersText
  <2>1a. text \in Seq(Token) /\ Own(text)
    BY <1>1, <2>1, OwnEmpty, SaidOwn
  <2>2. /\ inFlight' \in Seq(Token) /\ ErrorsOfOwnCommand'
        /\ InList' /\ UNCHANGED <<arrived, toServer, clientVars>>
    BY <1>0, <2>1, <2>1a, WritesKeeps
  <2>3. /\ executed' \in Seq([of : 1..MaxCommands, failed : BOOLEAN])
        /\ current' = current /\ executed' # <<>> /\ spc = "execute" /\ spc' = "reply"
        /\ log' \in Log /\ log'.len = log.len /\ log'.errors = log.errors
    BY <1>1, <1>4, <1>13, HandledKeeps DEF AnswersText
  <2>4. QED
    BY <1>0, <1>1, <2>2, <2>3, SessionTyped DEF IInv, ErrMsgFits, LogIsOwn
<1>14. ASSUME AnswersUnknown PROVE IInv'
  <2> DEFINE t == [kind |-> "err", of |-> current, errors |-> {current}]
  <2>1. /\ executed' \in Seq([of : 1..MaxCommands, failed : BOOLEAN])
        /\ current' = current /\ executed' # <<>> /\ log' = log
        /\ spc = "handle" /\ spc' = "reply"
    BY <1>1, <1>14, HandledKeeps DEF AnswersUnknown
  <2>2. t \in Token /\ t.errors \subseteq {t.of}
    BY <1>1 DEF Token
  <2>3. <<t>> \in Seq(Token) /\ Own(<<t>>)
    BY <2>2 DEF Own
  <2>4. /\ inFlight' \in Seq(Token) /\ ErrorsOfOwnCommand'
        /\ InList' /\ UNCHANGED <<arrived, toServer, clientVars>>
    BY <1>0, <1>14, <2>3, WritesKeeps DEF AnswersUnknown
  <2>5. QED
    BY <1>0, <1>1, <2>1, <2>4, SessionTyped DEF IInv, ErrMsgFits, LogIsOwn
<1>15. ASSUME AnswersReload PROVE IInv'
  <2>1. Said("text") \in Seq(Token) /\ Own(Said("text"))
    BY <1>1, SaidOwn
  <2>2. /\ inFlight' \in Seq(Token) /\ ErrorsOfOwnCommand'
        /\ InList' /\ UNCHANGED <<arrived, toServer, clientVars>>
    BY <1>0, <1>15, <2>1, WritesKeeps DEF AnswersReload
  <2>3. /\ executed' \in Seq([of : 1..MaxCommands, failed : BOOLEAN])
        /\ current' = current /\ executed' # <<>> /\ spc = "execute" /\ spc' = "reply"
    BY <1>1, <1>15, HandledKeeps DEF AnswersReload
  <2>4. log.errors \subseteq {current}
    BY <1>1, <2>3 DEF LogIsOwn
  <2>5. log' \in Log /\ log'.len < ErrMsgSize /\ log'.errors \subseteq {current}
    <3>1. CASE log' = LogInfo(log)
      BY <1>1, <1>4, <2>4, <3>1
    <3>2. CASE \E n \in MessageLen : log' = LogError(log, current, n)
      <4>1. PICK n \in MessageLen : log' = LogError(log, current, n)
        BY <3>2
      <4>2. QED
        BY <1>1, <2>4, <4>1, LogErrorLog
    <3>3. QED
      BY <1>15, <3>1, <3>2 DEF AnswersReload
  <2>6. QED
    BY <1>0, <1>1, <1>15, <2>2, <2>3, <2>5, SessionTyped
    DEF AnswersReload, IInv, ErrMsgFits, LogIsOwn
<1>16. ASSUME EntersRaw PROVE IInv'
  <2>1. /\ executed' \in Seq([of : 1..MaxCommands, failed : BOOLEAN])
        /\ current' = current /\ executed' # <<>> /\ spc = "handle" /\ spc' = "raw"
        /\ log' \in Log /\ log'.len = log.len /\ log'.errors = log.errors
        /\ UNCHANGED <<clientVars, channel>>
    BY <1>1, <1>4, <1>16, HandledKeeps DEF EntersRaw
  <2>2. QED
    BY <1>1, <1>2, <1>3, <2>1 DEF IInv, ErrMsgFits, LogIsOwn
<1>17. ASSUME RawFails PROVE IInv'
  <2>1. /\ executed' \in Seq([of : 1..MaxCommands, failed : BOOLEAN])
        /\ current' = current /\ executed' # <<>> /\ spc = "handle" /\ spc' = "reply"
        /\ UNCHANGED <<clientVars, channel>>
    BY <1>1, <1>17, HandledKeeps DEF RawFails
  <2>2. PICK n \in MessageLen : log' = LogError(log, current, n)
    BY <1>17 DEF RawFails
  <2>3. log' \in Log /\ log'.len < ErrMsgSize /\ log'.errors \subseteq {current}
    BY <1>1, <2>1, <2>2, LogErrorLog DEF LogIsOwn
  <2>4. QED
    BY <1>1, <1>2, <1>3, <2>1, <2>3 DEF IInv, ErrMsgFits, LogIsOwn
<1>18. ASSUME Quits PROVE IInv'
  <2>1. Said("bye") \in Seq(Token) /\ Own(Said("bye"))
    BY <1>1, SaidOwn
  <2>2. /\ inFlight' \in Seq(Token) /\ ErrorsOfOwnCommand'
        /\ InList' /\ UNCHANGED <<arrived, toServer, clientVars>>
    BY <1>0, <1>18, <2>1, WritesKeeps DEF Quits
  <2>3. /\ executed' \in Seq([of : 1..MaxCommands, failed : BOOLEAN])
        /\ current' = current
    BY <1>1, <1>18, HandledKeeps DEF Quits
  <2>4. QED
    BY <1>0, <1>1, <1>18, <2>2, <2>3, SessionTyped DEF Quits, IInv, ErrMsgFits, LogIsOwn
\* The errors that are left go out with the prompt, or when the session leaves.
<1>19. ASSUME spc = "reply" \/ (spc = "leave" /\ ~ClientIsGone)
       PROVE  /\ ErrMsgSent(log, current) \in Seq(Token) /\ Own(ErrMsgSent(log, current))
  BY <1>1, <1>19, ErrMsgSentOwn DEF LogIsOwn
<1>19a. /\ AfterErrMsg(log) \in Log /\ AfterErrMsg(log).len = 0
        /\ AfterErrMsg(log).class # "err"
  BY <1>1, AfterErrMsgLog
<1>20. ASSUME Prompts PROVE IInv'
  <2>1. Said("prompt") \in Seq(Token) /\ Own(Said("prompt"))
    BY <1>1, SaidOwn
  <2>2. ErrMsgSent(log, current) \o Said("prompt") \in Seq(Token)
        /\ Own(ErrMsgSent(log, current) \o Said("prompt"))
    BY <1>19, <1>20, <2>1, OwnConcat DEF Prompts
  <2>3. /\ inFlight' \in Seq(Token) /\ ErrorsOfOwnCommand'
        /\ InList' /\ UNCHANGED <<arrived, toServer, clientVars>>
    BY <1>0, <1>20, <2>2, WritesKeeps DEF Prompts
  <2>4. QED
    BY <1>0, <1>1, <1>19a, <1>20, <2>3, SessionTyped DEF Prompts, IInv, ErrMsgFits, LogIsOwn
<1>21. ASSUME PromptsOnly PROVE IInv'
  <2>1. Said("prompt") \in Seq(Token) /\ Own(Said("prompt"))
    BY <1>1, SaidOwn
  <2>2. /\ inFlight' \in Seq(Token) /\ ErrorsOfOwnCommand'
        /\ InList' /\ UNCHANGED <<arrived, toServer, clientVars>>
    BY <1>0, <1>21, <2>1, WritesKeeps DEF PromptsOnly
  <2>3. TypeOK'
    BY <1>0, <1>1, <1>21, <2>2, SessionTyped DEF PromptsOnly
  <2>4. QED
    BY <1>1, <1>21, <2>2, <2>3 DEF PromptsOnly, IInv, ErrMsgFits, LogIsOwn
<1>22. ASSUME PromptFails \/ SessionDies PROVE IInv'
  <2>1. TypeOK' /\ InList' /\ ErrorsOfOwnCommand'
    BY <1>1, <1>2, <1>3, <1>22 DEF PromptFails, SessionDies
  <2>2. QED
    BY <1>1, <1>22, <2>1 DEF PromptFails, SessionDies, IInv, ErrMsgFits, LogIsOwn
<1>23. ASSUME Leaves PROVE IInv'
  <2>1. /\ inFlight' \in Seq(Token) /\ ErrorsOfOwnCommand'
        /\ InList' /\ UNCHANGED <<arrived, toServer, clientVars>>
    <3>1. CASE ClientIsGone
      <4>1. Writes(<<>>)
        BY <1>23, <3>1 DEF Leaves, Writes, Written
      <4> QED
        BY <1>0, <4>1, OwnEmpty, WritesKeeps
    <3>2. CASE ~ClientIsGone
      BY <1>0, <1>19, <1>23, <3>2, WritesKeeps DEF Leaves
    <3> QED
      BY <3>1, <3>2
  <2>2. QED
    BY <1>0, <1>1, <1>19a, <1>23, <2>1, SessionTyped DEF Leaves, IInv, ErrMsgFits, LogIsOwn
<1>24. QED
  BY <1>5, <1>6, <1>7, <1>8, <1>9, <1>10, <1>11, <1>12, <1>13, <1>14, <1>15, <1>16, <1>17,
     <1>18, <1>20, <1>21, <1>22, <1>23
  DEF SessionStep, XmlFails, HexFails, OpenFails, PrecmdFails
-----------------------------------------------------------------------------
(* The client and the network.                                             *)

LEMMA ClientPreserves ==
  ASSUME IInv, ClientStep \/ Arrives \/ ClientDies
  PROVE  IInv'
<1> USE DEF ClientPlace
<1>0. ~ClientIsGone
  BY DEF ClientStep, Greeted, Hears, Replied, SendsCommand, Disconnects, SendFails, TimesOut,
     FindsEof, Finishes, Arrives, ClientDies, Waiting, ClientIsGone
<1>1. /\ TypeOK /\ InList /\ ErrMsgFits /\ LogIsOwn
      /\ Own(inFlight) /\ Own(arrived) /\ Own(heard)
      /\ heard \in Seq(Token) /\ arrived \in Seq(Token) /\ inFlight \in Seq(Token)
      /\ next \in 1..(Len(commands) + 1) /\ Len(commands) \in Nat
  BY CommandsAssumption DEF IInv, TypeOK, ErrorsOfOwnCommand
\* The session is not touched.
<1>2. ASSUME UNCHANGED sessionVars PROVE ErrMsgFits' /\ LogIsOwn'
  BY <1>0, <1>1, <1>2 DEF sessionVars, ErrMsgFits, LogIsOwn
<1>2a. ASSUME UNCHANGED sessionVars, Own(inFlight'), Own(arrived'), Own(heard')
       PROVE  ErrorsOfOwnCommand'
  BY <1>2a DEF sessionVars, ErrorsOfOwnCommand, Own
\* The type invariant, from the types of what may change.
<1>3. ASSUME UNCHANGED sessionVars, commands' = commands,
             toServer' \in Seq(0..MaxCommands), cpc' \in ClientPlace,
             next' \in 1..(Len(commands) + 1),
             results' \in Seq([of : SUBSET (0..MaxCommands), err : BOOLEAN]),
             heard' \in Seq(Token), arrived' \in Seq(Token), inFlight' \in Seq(Token)
      PROVE  TypeOK'
  BY <1>1, <1>3 DEF TypeOK, sessionVars
\* What is read from the socket.
<1>4. ASSUME arrived # <<>>
      PROVE  /\ Tail(arrived) \in Seq(Token) /\ Own(Tail(arrived))
             /\ Head(arrived) \in Token /\ Own(<<Head(arrived)>>)
  BY <1>1, <1>4, OwnTail
<1>5. ASSUME NEW status \in {"ok", "failed"}, Ends(status) PROVE IInv'
  BY <1>1, <1>2, <1>2a, <1>3, <1>5, OwnEmpty DEF Ends, IInv, TypeOK, InList
<1>6. ASSUME Greeted PROVE IInv'
  BY <1>1, <1>2, <1>2a, <1>3, <1>4, <1>6, OwnEmpty
  DEF Greeted, Found, IInv, TypeOK, InList
<1>7. ASSUME Hears PROVE IInv'
  <2>1. heard' \in Seq(Token) /\ Own(heard')
    BY <1>1, <1>4, <1>7, OwnAppend DEF Hears
  <2>2. QED
    BY <1>1, <1>2, <1>2a, <1>3, <1>4, <1>7, <2>1 DEF Hears, IInv, TypeOK, InList
<1>8. ASSUME NEW line \in 0..MaxCommands, NEW place \in {"wait", "bye"},
             place = "wait" => next <= Len(commands), Sends(line, place)
      PROVE  IInv'
  BY <1>1, <1>2, <1>2a, <1>3, <1>8, OwnEmpty DEF Sends, IInv, TypeOK, InList
<1>9. ASSUME Replied PROVE IInv'
  <2>1. Reply \in [of : SUBSET (0..MaxCommands), err : BOOLEAN]
    <3>1. Head(arrived).of \in 0..MaxCommands
      BY <1>4, <1>9 DEF Replied, Found, Token
    <3>2. ASSUME NEW i \in DOMAIN heard PROVE heard[i].of \in 0..MaxCommands
      <4>1. heard[i] \in Token
        BY <1>1, <3>2
      <4>2. QED
        BY <4>1 DEF Token
    <3> DEFINE of  == {heard[i].of : i \in DOMAIN heard} \cup {Head(arrived).of}
               err == heard # <<>> /\ Head(heard).kind = "err"
    <3>3. of \in SUBSET (0..MaxCommands)
      BY <3>1, <3>2
    <3>4. err \in BOOLEAN
      BY Zenon
    <3>5. Reply = [of |-> of, err |-> err]
      BY Zenon DEF Reply
    <3> HIDE DEF of, err
    <3>6. QED
      BY <3>3, <3>4, <3>5, Zenon
  <2>2. results' \in Seq([of : SUBSET (0..MaxCommands), err : BOOLEAN])
    BY <1>1, <1>9, <2>1 DEF Replied, TypeOK
  <2>3. next' \in 1..(Len(commands) + 1)
    BY <1>1, <1>9 DEF Replied, InList
  <2>4. QED
    BY <1>1, <1>2, <1>2a, <1>3, <1>4, <1>9, <2>2, <2>3, OwnEmpty
    DEF Replied, Found, IInv, TypeOK, InList
<1>10. ASSUME Arrives PROVE IInv'
  <2>1. /\ Tail(inFlight) \in Seq(Token) /\ Own(Tail(inFlight))
        /\ Head(inFlight) \in Token /\ Own(<<Head(inFlight)>>)
    BY <1>1, <1>10, OwnTail DEF Arrives
  <2>2. arrived' \in Seq(Token) /\ Own(arrived')
    BY <1>1, <1>10, <2>1, OwnAppend DEF Arrives
  <2>3. QED
    BY <1>1, <1>2, <1>2a, <1>3, <1>10, <2>1, <2>2
    DEF Arrives, IInv, TypeOK, InList, clientVars
<1>11. SendsCommand => IInv'
  <2>1. next <= Len(commands) => next \in 0..MaxCommands
    BY <1>1, CommandsAssumption DEF TypeOK
  <2>2. QED
    BY <1>8, <2>1 DEF SendsCommand
<1>12. Disconnects => IInv'
  BY <1>8, CommandsAssumption DEF Disconnects
<1>13. SendFails \/ TimesOut \/ FindsEof \/ Finishes \/ ClientDies => IInv'
  BY <1>5 DEF SendFails, TimesOut, FindsEof, Finishes, ClientDies
<1>14. QED
  BY <1>6, <1>7, <1>9, <1>10, <1>11, <1>12, <1>13 DEF ClientStep

LEMMA StutterPreserves ==
  ASSUME IInv, UNCHANGED vars
  PROVE  IInv'
BY DEF IInv, TypeOK, InList, ErrMsgFits, LogIsOwn, ErrorsOfOwnCommand, Own,
       ClientIsGone, vars, clientVars, channel, sessionVars

LEMMA IInvStep == IInv /\ CInv /\ [Next]_vars => IInv'
BY SessionPreserves, ClientPreserves, StutterPreserves DEF Next, Over


-----------------------------------------------------------------------------
(* Sequences of tokens.                                                    *)

LEMMA AnsweredConcat ==
  ASSUME NEW q \in Seq(Token), NEW r \in Seq(Token)
  PROVE  Answered(q \o r) <=> IF q = <<>> THEN Answered(r) ELSE Answered(q)
<1>1. CASE q = <<>>
  <2>1. q \o r = r
    BY <1>1
  <2> QED
    BY <1>1, <2>1
<1>2. CASE q # <<>>
  <2>1. q \o r # <<>> /\ Head(q \o r) = Head(q)
    BY <1>2
  <2> QED
    BY <1>2, <2>1 DEF Answered
<1> QED
  BY <1>1, <1>2

LEMMA ElementOfConcat ==
  ASSUME NEW q \in Seq(Token), NEW r \in Seq(Token), NEW i \in DOMAIN (q \o r)
  PROVE  \/ i \in DOMAIN q /\ (q \o r)[i] = q[i]
         \/ i - Len(q) \in DOMAIN r /\ (q \o r)[i] = r[i - Len(q)]
<1>1. CASE i <= Len(q)
  BY <1>1
<1>2. CASE i > Len(q)
  BY <1>2
<1> QED
  BY <1>1, <1>2

LEMMA LastIn ==
  ASSUME NEW S, NEW s \in Seq(S), s # <<>>
  PROVE  s[Len(s)] \in S
<1>1. Len(s) \in Nat \ {0}
  BY EmptySeq, Zenon
<1> QED
  BY <1>1

\* A function on 1..n+1 that continues one on 1..n is that sequence with an element more.
IsList(f, n) == f = [i \in 1..n |-> f[i]]

LEMMA AppendIs ==
  ASSUME NEW n \in Nat, NEW f, NEW g, IsList(f, n), IsList(g, n + 1),
         \A i \in 1..n : g[i] = f[i]
  PROVE  g = Append(f, g[n + 1])
<1> DEFINE S == {g[i] : i \in 1..(n + 1)}
<1>1. \A i \in 1..(n + 1) : g[i] \in S
  OBVIOUS
<1>2. g \in [1..(n + 1) -> S]
  BY <1>1 DEF IsList
<1>3. f \in [1..n -> S]
  BY <1>1 DEF IsList
<1> HIDE DEF S
<1>4. f \in Seq(S) /\ Len(f) = n /\ g \in Seq(S) /\ Len(g) = n + 1 /\ g[n + 1] \in S
  BY <1>1, <1>2, <1>3
<1>5. PICK a : a = Append(f, g[n + 1])
  OBVIOUS
<1>6. /\ a \in Seq(S) /\ Len(a) = n + 1 /\ a[n + 1] = g[n + 1]
      /\ \A i \in 1..n : a[i] = f[i]
  BY <1>4, <1>5, AppendProperties
<1>7. ASSUME NEW i \in 1..Len(a) PROVE a[i] = g[i]
  <2>1. i \in 1..n \/ i = n + 1
    BY <1>6
  <2> QED
    BY <1>6, <2>1, Zenon
<1>8. a = g
  BY <1>4, <1>6, <1>7, SeqEqual
<1> QED
  BY <1>5, <1>8

LEMMA OneElement ==
  ASSUME NEW x
  PROVE  Head(<<x>>) = x /\ Tail(<<x>>) = <<>>
OBVIOUS

LEMMA ConcatType ==
  ASSUME NEW q \in Seq(Token), NEW r \in Seq(Token)
  PROVE  q \o r \in Seq(Token) /\ Len(q \o r) = Len(q) + Len(r)
OBVIOUS

LEMMA PipeType ==
  ASSUME TypeOK
  PROVE  /\ Pipe \in Seq(Token)
         /\ Pipe = heard \o (arrived \o inFlight)
         /\ Len(Pipe) = Len(heard) + Len(arrived) + Len(inFlight)
         /\ heard # <<>> => Head(Pipe) = Head(heard)
         /\ \A i \in DOMAIN heard : i \in DOMAIN Pipe /\ Pipe[i] = heard[i]
         /\ arrived # <<>> => /\ Len(heard) + 1 \in DOMAIN Pipe
                              /\ Pipe[Len(heard) + 1] = Head(arrived)
<1>1. heard \in Seq(Token) /\ arrived \in Seq(Token) /\ inFlight \in Seq(Token)
  BY DEF TypeOK
<1>2. Pipe \in Seq(Token) /\ Len(Pipe) = Len(heard) + Len(arrived) + Len(inFlight)
  BY <1>1 DEF Pipe
<1>3. Pipe = heard \o (arrived \o inFlight)
  BY <1>1, ConcatAssociative DEF Pipe
<1>4. ASSUME NEW i \in DOMAIN heard PROVE i \in DOMAIN Pipe /\ Pipe[i] = heard[i]
  BY <1>1 DEF Pipe
<1>5. heard # <<>> => Head(Pipe) = Head(heard)
  BY <1>1 DEF Pipe
<1>6. ASSUME arrived # <<>>
      PROVE  Len(heard) + 1 \in DOMAIN Pipe /\ Pipe[Len(heard) + 1] = Head(arrived)
  BY <1>1, <1>6 DEF Pipe
<1> QED
  BY <1>2, <1>3, <1>4, <1>5, <1>6

\* Reading and arriving move tokens inside it.
LEMMA Moved ==
  ASSUME NEW q \in Seq(Token), NEW r \in Seq(Token), r # <<>>
  PROVE  Append(q, Head(r)) \o Tail(r) = q \o r
<1>1. Append(q, Head(r)) = q \o <<Head(r)>> /\ <<Head(r)>> \in Seq(Token)
      /\ Tail(r) \in Seq(Token)
  OBVIOUS
<1>2. <<Head(r)>> \o Tail(r) = r
  OBVIOUS
<1> QED
  BY <1>1, <1>2, ConcatAssociative

LEMMA HearsKeepsPipe ==
  ASSUME TypeOK, Hears \/ Arrives
  PROVE  Pipe' = Pipe
<1>1. heard \in Seq(Token) /\ arrived \in Seq(Token) /\ inFlight \in Seq(Token)
  BY DEF TypeOK
<1>2. CASE Hears
  <2>1. heard' \o arrived' = heard \o arrived /\ inFlight' = inFlight
    BY <1>1, <1>2, Moved DEF Hears
  <2> QED
    BY <2>1 DEF Pipe
<1>3. CASE Arrives
  <2>1. arrived' \o inFlight' = arrived \o inFlight /\ heard' = heard
    BY <1>1, <1>3, Moved DEF Arrives, clientVars
  <2>2. arrived' \in Seq(Token) /\ inFlight' \in Seq(Token)
    BY <1>1, <1>3 DEF Arrives
  <2>3. Pipe' = heard \o (arrived' \o inFlight')
    <3>1. PICK a \in Seq(Token), f \in Seq(Token) : a = arrived' /\ f = inFlight'
      BY <2>2
    <3>2. (heard \o a) \o f = heard \o (a \o f)
      BY <1>1, ConcatAssociative, SMTT(30)
    <3> QED
      BY <2>1, <3>1, <3>2 DEF Pipe
  <2>4. Pipe = heard \o (arrived \o inFlight)
    BY PipeType
  <2> QED
    BY <2>1, <2>3, <2>4
<1> QED
  BY <1>2, <1>3

\* Writing adds to its end.
LEMMA WritesPipe ==
  ASSUME TypeOK, ~ClientIsGone, NEW tokens \in Seq(Token), inFlight' = Written(tokens),
         heard' = heard, arrived' = arrived
  PROVE  Pipe' = Pipe \o tokens
<1>1. heard \in Seq(Token) /\ arrived \in Seq(Token) /\ inFlight \in Seq(Token)
  BY DEF TypeOK
<1>2. heard \o arrived \in Seq(Token)
  BY <1>1
<1>3. PICK front \in Seq(Token) : front = heard \o arrived
  BY <1>2
<1>4. front \o (inFlight \o tokens) = (front \o inFlight) \o tokens
  <2>1. PICK f \in Seq(Token) : f = inFlight
    BY <1>1
  <2>2. (front \o f) \o tokens = front \o (f \o tokens)
    BY ConcatAssociative
  <2> QED
    BY <2>1, <2>2
<1>5. inFlight' = inFlight \o tokens
  BY DEF Written
<1>6. Pipe' = front \o inFlight' /\ Pipe = front \o inFlight
  BY <1>3 DEF Pipe
<1> QED
  BY <1>4, <1>5, <1>6

LEMMA PipeSame ==
  ASSUME heard' = heard, arrived' = arrived, inFlight' = inFlight
  PROVE  Pipe' = Pipe
BY DEF Pipe

-----------------------------------------------------------------------------
(* The session.                                                            *)

\* A command that has been handled is the next one of the list, and was not before.
LEMMA HandledCounts ==
  ASSUME TypeOK, Counted, OneLine, NEW place \in {"handle", "execute"}, NEW kind,
         NEW failed \in BOOLEAN, Handled(place, kind, failed), commands' = commands
  PROVE  /\ current = next /\ current' = current /\ next <= Len(commands)
         /\ commands[next] = kind /\ toServer = <<>> /\ spc = place
         /\ Len(executed) = next - 1 /\ Len(executed') = next
         /\ executed' = Append(executed, [of |-> next, failed |-> failed])
         /\ \A i \in DOMAIN executed' : executed'[i].of = i
         /\ inherited' = inherited /\ (ItFailed' <=> Led \/ (failed /\ kind # "reload"))
<1>1. spc = place /\ current > 0 /\ commands[current] = kind /\ current' = current
      /\ inherited' = inherited
      /\ executed' = Append(executed, [of |-> current, failed |-> failed])
  BY DEF Handled
<1>2. current = next /\ next <= Len(commands) /\ Len(executed) = next - 1 /\ toServer = <<>>
  BY <1>1 DEF OneLine
<1>3. executed \in Seq([of : 1..MaxCommands, failed : BOOLEAN]) /\ next \in Nat
  BY <1>2 DEF TypeOK
<1>4. Len(executed') = next
  BY <1>1, <1>2, <1>3
<1>5. executed'[Len(executed')] = [of |-> next, failed |-> failed]
  BY <1>1, <1>2, <1>3
<1>6. ItFailed' <=> Led \/ (failed /\ kind # "reload")
  BY <1>1, <1>2, <1>5 DEF ItFailed, LooksFailed, Led
<1>7. ASSUME NEW i \in DOMAIN executed' PROVE executed'[i].of = i
  <2>1. CASE i \in DOMAIN executed
    <3>1. executed'[i] = executed[i]
      BY <1>1, <1>3, <2>1
    <3> QED
      BY <2>1, <3>1 DEF Counted
  <2>2. CASE i \notin DOMAIN executed
    <3>1. i = Len(executed')
      BY <1>1, <1>2, <1>3, <1>4, <2>2
    <3> QED
      BY <1>4, <1>5, <3>1
  <2> QED
    BY <2>1, <2>2
<1> QED
  BY <1>1, <1>2, <1>4, <1>6, <1>7

\* What is said of a command and of the line does not depend on what is written.
LEMMA HandledKeepsCount ==
  ASSUME TypeOK, Counted, OneLine, NEW place \in {"handle", "execute"}, NEW kind,
         NEW failed \in BOOLEAN, Handled(place, kind, failed),
         UNCHANGED <<toServer, clientVars>>, spc' \notin {"handle", "execute"}
  PROVE  Counted' /\ OneLine'
<1>1. commands' = commands /\ next' = next /\ results' = results /\ cpc' = cpc
  BY DEF clientVars
<1>2. /\ toServer = <<>> /\ Len(executed') = next
      /\ \A i \in DOMAIN executed' : executed'[i].of = i
  BY <1>1, HandledCounts
<1>3. Counted'
  BY <1>1, <1>2 DEF Counted
<1> QED
  BY <1>2, <1>3 DEF OneLine

\* What sendErrMsg() would send is of the command it is called for, and no prompt.
LEMMA ErrMsgSentIs ==
  ASSUME NEW l \in Log, NEW k \in 0..MaxCommands
  PROVE  /\ ErrMsgSent(l, k) \in Seq(Token)
         /\ \A i \in DOMAIN ErrMsgSent(l, k) :
              ErrMsgSent(l, k)[i].of = k /\ ErrMsgSent(l, k)[i].kind = "err"
         /\ l.class # "err" => ErrMsgSent(l, k) = <<>>
         /\ l.class = "err" => Answered(ErrMsgSent(l, k))
<1> DEFINE t == [kind |-> "err", of |-> k, errors |-> l.errors]
<1>1. t \in Token /\ t.kind = "err" /\ t.of = k
  BY DEF Token, Log
<1>2. ErrMsgSent(l, k) = IF l.class = "err" THEN <<t>> ELSE <<>>
  BY DEF ErrMsgSent
<1> HIDE DEF t
<1> QED
  BY <1>1, <1>2 DEF Answered

\* What the session writes with it, and what sendErrMsg() will add before the prompt,
\* is its answer.
AnswersWith(tokens, fails) ==
  /\ Pipe' = Pipe \o tokens
  /\ \A i \in DOMAIN tokens : tokens[i].of = current /\ tokens[i].kind # "prompt"
  /\ spc' \in {"reply", "bare", "closing", "leave", "raw", "gone"}
  /\ spc' \in {"bare", "closing"} => (Answered(tokens) <=> fails)
  /\ spc' = "reply" => (Answered(tokens \o ErrMsgSent(log', current)) <=> fails)

LEMMA HandledAnswers ==
  ASSUME TypeOK, Counted, OneLine, Turns, cpc = "wait",
         NEW place \in {"handle", "execute"}, NEW kind,
         NEW failed \in BOOLEAN, Handled(place, kind, failed),
         UNCHANGED <<toServer, clientVars>>, log' \in Log,
         NEW tokens \in Seq(Token),
         NEW fails \in BOOLEAN, fails <=> failed /\ kind # "reload",
         AnswersWith(tokens, fails)
  PROVE  Answering'
<1>1. commands' = commands /\ next' = next
  BY DEF clientVars
<1>2. /\ current = next /\ current' = current /\ toServer = <<>> /\ spc = place
      /\ Len(executed') = next /\ (ItFailed' <=> Led \/ fails)
  <2>1. /\ current = next /\ current' = current /\ toServer = <<>> /\ spc = place
        /\ Len(executed') = next /\ inherited' = inherited
        /\ (ItFailed' <=> Led \/ (failed /\ kind # "reload"))
    BY <1>1, HandledCounts
  <2> QED
    BY <2>1, Zenon
<1>3. Answering
  BY <1>2 DEF Turns, Asked
<1>4. PICK p \in Seq(Token) : p = Pipe
  BY PipeType
<1>5. PICK e \in Seq(Token) : e = ErrMsgSent(log', current)
  BY ErrMsgSentIs DEF TypeOK
<1>6. /\ IF Led THEN Answered(p) ELSE p = <<>>
      /\ \A i \in DOMAIN p : p[i].of = next /\ p[i].kind # "prompt"
  BY <1>2, <1>3, <1>4 DEF Answering, NoPrompt
<1>7. Pipe' = p \o tokens /\ ErrMsgSent(log, current)' = e
  BY <1>2, <1>4, <1>5 DEF AnswersWith
<1>8. \A i \in DOMAIN (p \o tokens) :
        (p \o tokens)[i].of = next /\ (p \o tokens)[i].kind # "prompt"
  BY <1>2, <1>6, ElementOfConcat DEF AnswersWith
<1>9. tokens \o e \in Seq(Token) /\ (p \o tokens) \o e = p \o (tokens \o e)
  BY ConcatType, ConcatAssociative, SMTT(30)
<1>10. ASSUME NEW q \in Seq(Token), Answered(q) <=> fails
       PROVE  Answered(p \o q) <=> Led \/ fails
  BY <1>6, <1>10, AnsweredConcat DEF Answered
<1>11. /\ spc' \in {"bare", "closing"} => (Answered(p \o tokens) <=> Led \/ fails)
       /\ spc' = "reply" => (Answered((p \o tokens) \o e) <=> Led \/ fails)
  BY <1>5, <1>9, <1>10 DEF AnswersWith
<1>12. NoPrompt(Pipe')
  BY <1>7, <1>8 DEF NoPrompt
<1> QED
  BY <1>1, <1>2, <1>7, <1>8, <1>11, <1>12 DEF Answering, NoPrompt, Answered, AnswersWith

\* The error a command reports, and that sendErrMsg() then has nothing more to send.
LEMMA ReportIsError ==
  ASSUME TypeOK, ReportsError
  PROVE  \E tokens \in Seq(Token) :
           /\ inFlight' = Written(tokens) /\ UNCHANGED <<arrived, toServer, clientVars>>
           /\ \A i \in DOMAIN tokens : tokens[i].of = current /\ tokens[i].kind = "err"
           /\ Answered(tokens)
           /\ ErrMsgSent(log', current) = <<>>
<1>1. PICK n \in MessageLen : /\ Writes(ErrMsgSent(LogError(log, current, n), current))
                              /\ log' = AfterErrMsg(LogError(log, current, n))
  BY DEF ReportsError
<1> DEFINE l == LogError(log, current, n)
           t == [kind |-> "err", of |-> current, errors |-> l.errors]
<1>2. l.class = "err" /\ l.errors = log.errors \cup {current}
  BY DEF LogError
<1>3. ErrMsgSent(l, current) = <<t>>
  BY <1>2 DEF ErrMsgSent
<1>4. t \in Token
  BY <1>2 DEF Token, TypeOK, Log
<1>5. log'.class = "sent"
  BY <1>1, <1>2 DEF AfterErrMsg, NoErrors
<1>6. ErrMsgSent(log', current) = <<>>
  BY <1>5 DEF ErrMsgSent
<1>7. Answered(<<t>>)
  BY DEF Answered
<1> HIDE DEF t
<1>8. \A i \in DOMAIN <<t>> : <<t>>[i] = t
  OBVIOUS
<1>9. t.of = current /\ t.kind = "err"
  BY DEF t
<1>10. <<t>> \in Seq(Token)
       /\ (\A i \in DOMAIN <<t>> : <<t>>[i].of = current /\ <<t>>[i].kind = "err")
  BY <1>4, <1>8, <1>9
<1>11. inFlight' = Written(<<t>>) /\ UNCHANGED <<arrived, toServer, clientVars>>
  BY <1>1, <1>3 DEF Writes
<1> QED
  BY <1>6, <1>7, <1>10, <1>11

LEMMA SaidIs ==
  ASSUME TypeOK, NEW kind \in {"prompt", "text", "bye"}
  PROVE  /\ Said(kind) \in Seq(Token) /\ Len(Said(kind)) = 1 /\ ~Answered(Said(kind))
         /\ \A i \in DOMAIN Said(kind) :
              i = 1 /\ Said(kind)[i].of = current /\ Said(kind)[i].kind = kind
<1> DEFINE t == [kind |-> kind, of |-> current, errors |-> {}]
<1>1. t \in Token
  BY DEF Token, TypeOK
<1>2. t.kind = kind /\ t.of = current
  OBVIOUS
<1>3. Said(kind) = <<t>>
  BY DEF Said
<1> HIDE DEF t
<1> QED
  BY <1>1, <1>2, <1>3 DEF Answered

\* The rest of a session's steps leaves the counts as they are.
LEMMA SameCount ==
  ASSUME Counted, OneLine, UNCHANGED <<clientVars, toServer, executed, current>>,
         spc' \in {"handle", "execute"} => spc \in {"handle", "execute"},
         toServer # <<>> => spc' \in {"read", "gone"}
  PROVE  Counted' /\ OneLine'
<1>1. commands' = commands /\ next' = next /\ results' = results /\ cpc' = cpc
  BY DEF clientVars
<1> QED
  BY <1>1 DEF Counted, OneLine

LEMMA SessionKeepsCount ==
  ASSUME IInv, Counted, OneLine, SessionStep \/ LogsOnTheWay \/ SessionDies
  PROVE  Counted' /\ OneLine'
<1>1. TypeOK
  BY DEF IInv
<1>2. toServer # <<>> => spc \in {"read", "gone"}
  BY DEF OneLine
<1>3. CASE Greets \/ Closed \/ Prompts \/ PromptsOnly \/ Leaves \/ ReadsEof \/ Begins
           \/ LogsOnTheWay \/ PromptFails \/ SessionDies
  <2>1. /\ UNCHANGED <<clientVars, toServer, executed, current>>
        /\ spc' \in {"handle", "execute"} => spc \in {"handle", "execute"}
        /\ spc \in {"read", "gone"} /\ toServer # <<>> => spc' \in {"read", "gone"}
    BY <1>3 DEF Greets, Closed, Prompts, PromptsOnly, Leaves, ReadsEof, Begins,
       LogsOnTheWay, PromptFails, SessionDies, Writes, channel
  <2>2. toServer # <<>> => spc' \in {"read", "gone"}
    BY <1>2, <2>1
  <2> QED
    BY <2>1, <2>2, SameCount
<1>4. CASE ReadsLine
  <2>1. /\ spc = "read" /\ toServer # <<>> /\ spc' = "handle"
        /\ current' = Head(toServer) /\ toServer' = Tail(toServer)
        /\ commands' = commands /\ next' = next /\ results' = results /\ cpc' = cpc
        /\ executed' = executed
    BY <1>4 DEF ReadsLine, clientVars
  <2>2. \/ toServer = <<0>>
        \/ toServer = <<next>> /\ next <= Len(commands) /\ Len(executed) = next - 1
    BY <2>1 DEF OneLine
  <2>3. toServer' = <<>>
        /\ (current' > 0 => current' = next /\ next <= Len(commands)
                            /\ Len(executed) = next - 1)
    <3>1. CASE toServer = <<0>>
      <4>1. Head(toServer) = 0 /\ Tail(toServer) = <<>>
        BY <3>1, OneElement, Zenon
      <4> QED
        BY <2>1, <4>1
    <3>2. CASE toServer # <<0>>
      <4>1. Head(toServer) = next /\ Tail(toServer) = <<>>
        BY <2>2, <3>2, OneElement, Zenon
      <4> QED
        BY <2>1, <2>2, <3>2, <4>1
    <3> QED
      BY <3>1, <3>2
  <2> QED
    BY <2>1, <2>3 DEF Counted, OneLine
<1>5. CASE XmlSucceeds \/ XmlFails \/ HexFails \/ OpenFails \/ PrecmdFails \/ AnswersText
           \/ AnswersUnknown \/ AnswersReload \/ EntersRaw \/ RawFails
           \/ (Quits /\ executed' # executed)
  <2>1. PICK place \in {"handle", "execute"}, kind \in CommandKind, failed \in BOOLEAN :
          Handled(place, kind, failed)
    BY <1>5 DEF XmlSucceeds, XmlFails, HexFails, OpenFails, PrecmdFails, AnswersText,
       AnswersUnknown, AnswersReload, EntersRaw, RawFails, Quits, CommandKind
  <2>2. UNCHANGED <<toServer, clientVars>> /\ spc' \notin {"handle", "execute"}
    BY <1>5 DEF XmlSucceeds, XmlFails, HexFails, OpenFails, PrecmdFails, AnswersText,
       AnswersUnknown, AnswersReload, EntersRaw, RawFails, Quits, Writes, ReportsError,
       channel
  <2> QED
    BY <1>1, <2>1, <2>2, HandledKeepsCount
<1>6. CASE Quits /\ executed' = executed
  <2>1. UNCHANGED <<toServer, clientVars>> /\ current' = current /\ spc' = "gone"
    BY <1>6 DEF Quits, Writes, Handled
  <2> QED
    BY <1>6, <2>1, SameCount
<1> QED
  BY <1>3, <1>4, <1>5, <1>6 DEF SessionStep

\* The answer stays what it is.
LEMMA AnswerKept ==
  ASSUME Answering, UNCHANGED <<toServer, clientVars, current, executed, inherited>>, Pipe' = Pipe,
         \/ spc' = spc /\ spc # "reply"
         \/ spc = "handle" /\ spc' = "execute"
         \/ spc = "closing" /\ spc' = "bare"
         \/ spc' = "gone"
  PROVE  Answering'
<1>1. next' = next /\ ItFailed' = ItFailed
  BY DEF clientVars, ItFailed, LooksFailed
<1> QED
  BY <1>1 DEF Answering, NoPrompt, Answered, Led

\* It is complete with the prompt.
LEMMA PromptEnds ==
  ASSUME TypeOK, Answering,
         UNCHANGED <<toServer, clientVars, current, executed, inherited>>,
         spc \in {"reply", "bare"}, spc' = "read",
         NEW q \in Seq(Token),
         \A i \in DOMAIN q : q[i].of = current /\ q[i].kind = "err",
         Answered(Pipe \o q) <=> ItFailed,
         Pipe' = Pipe \o (q \o Said("prompt"))
  PROVE  Answering'
<1>1. next' = next /\ ItFailed' = ItFailed
  BY DEF clientVars, ItFailed, LooksFailed
<1>2. Pipe \in Seq(Token) /\ Said("prompt") \in Seq(Token)
  BY PipeType, SaidIs
<1>3. PICK p \in Seq(Token) : p = Pipe \o q
  BY <1>2, ConcatType
<1>4. PICK t \in Seq(Token) : t = Said("prompt")
  BY <1>2
<1>5. Pipe' = p \o t
  BY <1>2, <1>3, <1>4, ConcatAssociative, SMTT(30)
<1>6. ASSUME NEW i \in DOMAIN p PROVE p[i].of = next /\ p[i].kind # "prompt"
  BY <1>2, <1>3, <1>6, ElementOfConcat DEF Answering, NoPrompt
<1>7. Len(t) = 1 /\ ~Answered(t) /\ \A i \in DOMAIN t : i = 1 /\ t[i].of = next
  BY <1>4, SaidIs DEF Answering
<1>8. ASSUME NEW i \in DOMAIN (p \o t)
      PROVE  (p \o t)[i].of = next /\ ((p \o t)[i].kind = "prompt" => i = Len(p \o t))
  <2>1. CASE i \in DOMAIN p /\ (p \o t)[i] = p[i]
    BY <1>6, <2>1
  <2>2. CASE i - Len(p) \in DOMAIN t /\ (p \o t)[i] = t[i - Len(p)]
    <3>1. i - Len(p) = 1 /\ (p \o t)[i].of = next
      BY <1>7, <2>2
    <3>2. Len(p \o t) = Len(p) + 1 /\ Len(p) \in Nat
      <4>1. Len(p \o t) = Len(p) + Len(t) /\ Len(p) \in Nat
        OBVIOUS
      <4> QED
        BY <1>7, <4>1
    <3>3. i \in Nat
      BY <1>8, ConcatType
    <3> QED
      BY <3>1, <3>2, <3>3
  <2> QED
    BY <2>1, <2>2, ElementOfConcat
<1>9. Answered(p \o t) <=> Answered(p)
  <2>1. p = <<>> => ~Answered(p)
    BY DEF Answered
  <2> QED
    BY <1>7, <2>1, AnsweredConcat
<1>10. Len(executed) = next /\ (Answered(p) <=> ItFailed)
  BY <1>3 DEF Answering
<1> QED
  BY <1>1, <1>5, <1>8, <1>9, <1>10 DEF Answering

\* The session at its prompt reads the line.
LEMMA ReadsLineAnswers ==
  ASSUME IInv, CInv, cpc = "wait", ReadsLine
  PROVE  Answering'
<1>1. TypeOK /\ ~ClientIsGone /\ log \in Log
  BY DEF IInv, TypeOK, ClientIsGone
<1>2. toServer = <<next>> /\ Pipe = <<>>
  BY DEF CInv, Turns, Asked, Answering, ReadsLine
<1>3a. Head(toServer) = next /\ Tail(toServer) = <<>>
  BY <1>2, OneElement, Zenon
<1>4. heard' = heard /\ arrived' = arrived /\ next' = next /\ spc' = "handle"
      /\ toServer' = <<>> /\ current' = next /\ inherited' = inherited
      /\ inFlight' = Written(ErrMsgSent(log, next)) /\ executed' = executed
      /\ commands' = commands
  BY <1>3a DEF ReadsLine, clientVars
<1>5. next \in 0..MaxCommands /\ next \in Nat /\ Len(executed) = next - 1
  <2>1. next <= Len(commands) /\ Len(executed) = next - 1
    <3>1. next # 0 /\ <<next>> # <<0>> /\ toServer # <<>>
      <4>1. next # 0
        BY <1>1 DEF TypeOK
      <4>2. <<next>>[1] # <<0>>[1]
        BY <4>1
      <4> QED
        BY <4>1, <4>2 DEF ReadsLine
    <3> QED
      BY <1>2, <3>1 DEF CInv, OneLine
  <2> QED
    BY <1>1, <2>1, CommandsAssumption DEF TypeOK
<1>6. PICK t \in Seq(Token) : t = ErrMsgSent(log, next)
  BY <1>1, <1>5, ErrMsgSentIs
<1>7. /\ \A i \in DOMAIN t : t[i].of = next /\ t[i].kind # "prompt"
      /\ IF log.class = "err" THEN Answered(t) ELSE t = <<>>
  BY <1>1, <1>5, <1>6, ErrMsgSentIs
<1>8. Pipe' = t
  <2>1. Pipe' = Pipe \o t
    BY <1>1, <1>4, <1>6, WritesPipe
  <2>2. <<>> \o t = t
    OBVIOUS
  <2> QED
    BY <1>2, <2>1, <2>2
<1>9. log.class = "err" <=> Led
  <2>1. log.class = "err" => Led
    BY <1>1, <1>3a, FirstLine DEF Led
  <2>2. Led => log.class = "err"
    <3>1. Led => executed = <<>>
      BY <1>1, <1>5, EmptySeq DEF Led, TypeOK
    <3> QED
      BY <3>1 DEF Led, IInv, LogIsOwn, ReadsLine
  <2> QED
    BY <2>1, <2>2
<1>10. IF Led' THEN Answered(Pipe') ELSE Pipe' = <<>>
  BY <1>4, <1>7, <1>8, <1>9 DEF Led
<1> QED
  BY <1>4, <1>7, <1>8, <1>10 DEF Answering, NoPrompt

LEMMA SessionTakesTurns ==
  ASSUME IInv, CInv, SessionStep \/ LogsOnTheWay \/ SessionDies
  PROVE  Turns'
<1>1. TypeOK /\ Counted /\ OneLine /\ Turns
      /\ log \in Log /\ current \in 0..MaxCommands
  BY DEF IInv, CInv, TypeOK
<1>2. UNCHANGED clientVars
  BY DEF SessionStep, LogsOnTheWay, SessionDies, Greets, ReadsLine, ReadsEof, Begins,
     XmlSucceeds, XmlFails, HexFails, OpenFails, Closed, PrecmdFails, AnswersText,
     AnswersUnknown, AnswersReload, EntersRaw, RawFails, Quits, Prompts, PromptsOnly,
     PromptFails, Leaves, ReportsError, Writes
<1>3. cpc' = cpc /\ next' = next /\ heard' = heard /\ commands' = commands
  BY <1>2 DEF clientVars
<1>3a. log' \in Log /\ inherited' = inherited
  BY SessionPreserves, SessionKeepsInherited DEF IInv, TypeOK
<1>4. CASE cpc = "greet"
  <2>1. Greeting /\ ~ClientIsGone
    BY <1>1, <1>4 DEF Turns, ClientIsGone
  <2>2. CASE Greets
    <3>1. Pipe' = Pipe \o Said("prompt")
      BY <1>1, <1>3, <2>1, <2>2, SaidIs, WritesPipe DEF Greets, Writes
    <3>2. Pipe = <<>>
      BY <2>1, <2>2 DEF Greeting, Greets
    <3>3. Len(Pipe') = 1
      BY <1>1, <3>1, <3>2, SaidIs
    <3> QED
      BY <1>3, <1>4, <2>1, <2>2, <3>3 DEF Turns, Greeting, Greets, Writes
  <2>3. CASE SessionDies
    <3>1. Pipe' = Pipe
      BY <1>3, <2>3, PipeSame DEF SessionDies, channel
    <3> QED
      BY <1>3, <1>4, <2>1, <2>3, <3>1 DEF Turns, Greeting, SessionDies, channel
  <2>4. spc \in {"greet", "read", "gone"} /\ toServer = <<>>
    BY <2>1 DEF Greeting
  <2>5. Greets \/ SessionDies
    BY <2>1, <2>4 DEF SessionStep, LogsOnTheWay, ReadsLine, ReadsEof, Begins, XmlSucceeds,
       XmlFails, HexFails, OpenFails, Closed, PrecmdFails, AnswersText, AnswersUnknown,
       AnswersReload, EntersRaw, RawFails, Quits, Prompts, PromptsOnly, PromptFails,
       Leaves, Handled
  <2> QED
    BY <2>2, <2>3, <2>5
<1>5. CASE cpc = "send"
  <2>1. Between /\ ~ClientIsGone
    BY <1>1, <1>5 DEF Turns, ClientIsGone
  <2>2. spc \in {"read", "gone"} /\ toServer = <<>>
    BY <2>1 DEF Between
  <2>3. SessionDies
    BY <2>1, <2>2 DEF SessionStep, LogsOnTheWay, Greets, ReadsLine, ReadsEof, Begins,
       XmlSucceeds, XmlFails, HexFails, OpenFails, Closed, PrecmdFails, AnswersText,
       AnswersUnknown, AnswersReload, EntersRaw, RawFails, Quits, Prompts, PromptsOnly,
       PromptFails, Leaves, Handled
  <2>4. Pipe' = Pipe
    BY <1>3, <2>3, PipeSame DEF SessionDies, channel
  <2> QED
    BY <1>3, <1>5, <2>1, <2>3, <2>4 DEF Turns, Between, SessionDies, channel
<1>6. CASE cpc = "wait" /\ Asked
  <2>1. toServer # <<>> /\ spc \in {"read", "gone"} /\ ~ClientIsGone
    BY <1>1, <1>6 DEF Asked, OneLine, ClientIsGone
  <2>2. CASE ReadsLine
    BY <1>3, <1>6, <2>2, ReadsLineAnswers DEF Turns
  <2>3. CASE SessionDies
    <3>1. Pipe' = Pipe
      BY <1>3, <2>3, PipeSame DEF SessionDies, channel
    <3> QED
      BY <1>3, <1>6, <2>3, <3>1 DEF Turns, Asked, SessionDies, channel
  <2>4. ReadsLine \/ SessionDies
    BY <2>1 DEF SessionStep, LogsOnTheWay, Greets, ReadsEof, Begins,
       XmlSucceeds, XmlFails, HexFails, OpenFails, Closed, PrecmdFails, AnswersText,
       AnswersUnknown, AnswersReload, EntersRaw, RawFails, Quits, Prompts, PromptsOnly,
       PromptFails, Leaves, Handled
  <2> QED
    BY <2>2, <2>3, <2>4
<1>7. CASE cpc = "wait" /\ Answering
  <2>1. ~ClientIsGone /\ toServer = <<>> /\ current = next /\ spc # "greet"
    BY <1>7 DEF Answering, ClientIsGone
  <2>2. SUFFICES Answering'
    BY <1>3, <1>7 DEF Turns
  <2>3. CASE Begins \/ LogsOnTheWay \/ Closed \/ SessionDies
    <3>1. Pipe' = Pipe
      BY <2>3, PipeSame DEF Begins, LogsOnTheWay, Closed, SessionDies, channel, clientVars
    <3> QED
      BY <1>2, <1>3a, <1>7, <2>3, <3>1, AnswerKept
      DEF Begins, LogsOnTheWay, Closed, SessionDies, channel
  <2>4. CASE Prompts
    <3>1. PICK q \in Seq(Token) : q = ErrMsgSent(log, current)
      BY <1>1, ErrMsgSentIs
    <3>2. q \o Said("prompt") \in Seq(Token)
      BY <1>1, <3>1, SaidIs, ConcatType
    <3>3. Pipe' = Pipe \o (q \o Said("prompt"))
      BY <1>1, <1>3, <2>1, <2>4, <3>1, <3>2, WritesPipe DEF Prompts, Writes
    <3>4. /\ \A i \in DOMAIN q : q[i].of = current /\ q[i].kind = "err"
          /\ Answered(Pipe \o q) <=> ItFailed
      BY <1>1, <1>7, <2>4, <3>1, ErrMsgSentIs DEF Answering, Prompts
    <3> QED
      BY <1>1, <1>2, <1>3a, <1>7, <2>4, <3>3, <3>4, PromptEnds DEF Prompts, Writes
  <2>5. CASE PromptsOnly
    <3>1. PICK q \in Seq(Token) : q = <<>>
      BY OwnEmpty
    <3>2. Said("prompt") \in Seq(Token) /\ Pipe \in Seq(Token)
      BY <1>1, SaidIs, PipeType
    <3>3. Pipe' = Pipe \o Said("prompt")
      BY <1>1, <1>3, <2>1, <2>5, <3>2, WritesPipe DEF PromptsOnly, Writes
    <3>4. q \o Said("prompt") = Said("prompt") /\ Pipe \o q = Pipe
      BY <3>1, <3>2
    <3>5. /\ \A i \in DOMAIN q : q[i].of = current /\ q[i].kind = "err"
          /\ Answered(Pipe \o q) <=> ItFailed
      BY <1>7, <2>5, <3>1, <3>4 DEF Answering, PromptsOnly
    <3> QED
      BY <1>1, <1>2, <1>3a, <1>7, <2>5, <3>3, <3>4, <3>5, PromptEnds DEF PromptsOnly, Writes
  <2>6. CASE Leaves
    <3>1. PICK q \in Seq(Token) : q = ErrMsgSent(log, current)
      BY <1>1, ErrMsgSentIs
    <3>2. Pipe \in Seq(Token) /\ Pipe' = Pipe \o q
      BY <1>1, <1>3, <2>1, <2>6, <3>1, PipeType, WritesPipe DEF Leaves, Writes
    <3>3. \A i \in DOMAIN q : q[i].of = next /\ q[i].kind = "err"
      BY <1>1, <2>1, <3>1, ErrMsgSentIs
    <3>4. PICK p \in Seq(Token) : p = Pipe
      BY <3>2
    <3>5. \A i \in DOMAIN p : p[i].of = next /\ p[i].kind # "prompt"
      BY <1>7, <2>6, <3>4 DEF Answering, NoPrompt, Leaves
    <3>6. \A i \in DOMAIN (p \o q) : (p \o q)[i].of = next /\ (p \o q)[i].kind # "prompt"
      BY <3>3, <3>5, ElementOfConcat
    <3> QED
      BY <1>3, <2>1, <2>6, <3>2, <3>4, <3>6 DEF Answering, NoPrompt, Leaves, Writes
  <2>7. CASE XmlSucceeds
    <3>1. PICK text \in {<<>>, Said("text")} : Writes(text)
      BY <2>7 DEF XmlSucceeds
    <3>2. /\ text \in Seq(Token) /\ ~Answered(text)
          /\ \A i \in DOMAIN text : text[i].of = current /\ text[i].kind # "prompt"
      <4>1. CASE text = <<>>
        BY <4>1, OwnEmpty DEF Answered
      <4>2. CASE text = Said("text")
        BY <1>1, <4>2, SaidIs
      <4> QED
        BY <4>1, <4>2
    <3>3. Pipe' = Pipe \o text /\ UNCHANGED <<toServer, clientVars>>
      BY <1>1, <1>3, <2>1, <3>1, <3>2, WritesPipe DEF Writes
    <3>4. /\ Handled("execute", "xml", FALSE) /\ spc' = "reply" /\ log' = LogInfo(log)
      BY <2>7 DEF XmlSucceeds
    <3>5. ErrMsgSent(log', current) = <<>>
      BY <1>1, <3>4, LogInfoLog DEF ErrMsgSent
    <3>6. text \o <<>> = text
      BY <3>2
    <3>7. AnswersWith(text, FALSE)
      BY <3>2, <3>3, <3>4, <3>5, <3>6 DEF AnswersWith
    <3> QED
      BY <1>1, <1>3a, <1>7, <3>2, <3>3, <3>4, <3>7, HandledAnswers
  <2>8. ASSUME NEW place \in {"handle", "execute"},
               NEW after \in {"reply", "bare", "closing", "leave"},
               Handled(place, "xml", TRUE), ReportsError, spc' = after
        PROVE  Answering'
    <3>1. PICK tokens \in Seq(Token) :
             /\ inFlight' = Written(tokens) /\ UNCHANGED <<arrived, toServer, clientVars>>
             /\ \A i \in DOMAIN tokens : tokens[i].of = current /\ tokens[i].kind = "err"
             /\ Answered(tokens)
             /\ ErrMsgSent(log', current) = <<>>
      BY <1>1, <2>8, ReportIsError
    <3>2. Pipe' = Pipe \o tokens
      BY <1>1, <1>3, <2>1, <3>1, WritesPipe
    <3>3. tokens \o <<>> = tokens
      BY <3>1
    <3>4. AnswersWith(tokens, TRUE)
      BY <2>8, <3>1, <3>2, <3>3 DEF AnswersWith
    <3>5. PICK failed \in {TRUE}, kind \in {"xml"} : TRUE
      OBVIOUS
    <3>6. TRUE <=> failed /\ kind # "reload"
      BY <3>5
    <3> QED
      BY <1>1, <1>3a, <1>7, <2>8, <3>1, <3>4, <3>5, <3>6, HandledAnswers
  <2>9. CASE AnswersText \/ (Quits /\ current # 0)
    <3>1. PICK u \in {<<>>, Said("text"), Said("bye")} : Writes(u)
      BY <2>9 DEF AnswersText, Quits
    <3>2. PICK t \in Seq(Token) : t = u
      BY <1>1, OwnEmpty, SaidIs
    <3>3. /\ ~Answered(t)
          /\ \A i \in DOMAIN t : t[i].of = current /\ t[i].kind # "prompt"
      <4>1. CASE u = <<>>
        BY <3>2, <4>1 DEF Answered
      <4>2. CASE u = Said("text") \/ u = Said("bye")
        BY <1>1, <3>2, <4>2, SaidIs
      <4> QED
        BY <4>1, <4>2
    <3>4. Pipe' = Pipe \o t /\ UNCHANGED <<toServer, clientVars>>
      BY <1>1, <1>3, <2>1, <3>1, <3>2, WritesPipe DEF Writes
    <3>5. t \o <<>> = t
      OBVIOUS
    <3>6. CASE AnswersText
      <4>1. /\ Handled("execute", "text", FALSE) /\ spc' = "reply" /\ log' = LogInfo(log)
        BY <3>6 DEF AnswersText
      <4>2. ErrMsgSent(log', current) = <<>>
        BY <1>1, <4>1, LogInfoLog DEF ErrMsgSent
      <4>3. AnswersWith(t, FALSE)
        BY <3>3, <3>4, <3>5, <4>1, <4>2 DEF AnswersWith
      <4> QED
        BY <1>1, <1>3a, <1>7, <3>4, <4>1, <4>3, HandledAnswers
    <3>7. CASE Quits /\ current # 0
      <4>1. Handled("handle", "quit", FALSE) /\ spc' = "gone"
        BY <3>7 DEF Quits
      <4>2. AnswersWith(t, FALSE)
        BY <3>3, <3>4, <4>1 DEF AnswersWith
      <4> QED
        BY <1>1, <1>3a, <1>7, <3>4, <4>1, <4>2, HandledAnswers
    <3> QED
      BY <2>9, <3>6, <3>7
  <2>10. CASE AnswersUnknown
    <3> DEFINE e == [kind |-> "err", of |-> current, errors |-> {current}]
    <3>1. e \in Token /\ e.of = current /\ e.kind = "err"
      BY <1>1 DEF Token
    <3>2. Writes(<<e>>)
      BY <2>10 DEF AnswersUnknown
    <3> HIDE DEF e
    <3>3. PICK t \in Seq(Token) : t = <<e>>
      <4>1. <<e>> \in Seq(Token)
        BY <3>1
      <4> QED
        BY <4>1
    <3>4. /\ Answered(t)
          /\ \A i \in DOMAIN t : t[i].of = current /\ t[i].kind # "prompt"
      BY <3>1, <3>3 DEF Answered
    <3>5. Pipe' = Pipe \o t /\ UNCHANGED <<toServer, clientVars>>
      BY <1>1, <1>3, <2>1, <3>2, <3>3, WritesPipe DEF Writes
    <3>6. PICK kind \in {"unknown", "text"} :
            Handled("handle", kind, TRUE) /\ spc' = "reply" /\ log' = log
      BY <2>10 DEF AnswersUnknown
    <3>7. ErrMsgSent(log', current) \in Seq(Token)
      BY <1>1, <3>6, ErrMsgSentIs
    <3>8. Answered(t \o ErrMsgSent(log', current))
      <4>1. t # <<>>
        BY <3>4 DEF Answered
      <4> QED
        BY <3>4, <3>7, <4>1, AnsweredConcat
    <3>9. AnswersWith(t, TRUE)
      BY <3>4, <3>5, <3>6, <3>8 DEF AnswersWith
    <3>10. PICK failed \in {TRUE} : TRUE
      OBVIOUS
    <3>11. TRUE <=> failed /\ kind # "reload"
      BY <3>10
    <3> QED
      BY <1>1, <1>3a, <1>7, <3>5, <3>6, <3>9, <3>10, <3>11, HandledAnswers
  <2>11. CASE AnswersReload
    <3>1. PICK t \in Seq(Token) : t = Said("text")
      BY <1>1, SaidIs
    <3>2. /\ ~Answered(t) /\ t # <<>>
          /\ \A i \in DOMAIN t : t[i].of = current /\ t[i].kind # "prompt"
      BY <1>1, <3>1, SaidIs
    <3>3. Pipe' = Pipe \o t /\ UNCHANGED <<toServer, clientVars>> /\ spc' = "reply"
      BY <1>1, <1>3, <2>1, <2>11, <3>1, WritesPipe DEF AnswersReload, Writes
    <3>4. PICK failed \in BOOLEAN : Handled("execute", "reload", failed)
      BY <2>11 DEF AnswersReload
    <3>5. log' \in Log
      <4>1. CASE log' = LogInfo(log)
        BY <1>1, <4>1, LogInfoLog
      <4>2. CASE \E n \in MessageLen : log' = LogError(log, current, n)
        BY <1>1, <4>2, LogErrorLog DEF IInv, ErrMsgFits
      <4> QED
        BY <2>11, <4>1, <4>2 DEF AnswersReload
    <3>6. ErrMsgSent(log', current) \in Seq(Token)
      BY <1>1, <3>5, ErrMsgSentIs
    <3>7. ~Answered(t \o ErrMsgSent(log', current))
      BY <3>2, <3>6, AnsweredConcat
    <3>8. AnswersWith(t, FALSE)
      BY <3>2, <3>3, <3>7 DEF AnswersWith
    <3> QED
      BY <1>1, <1>3a, <1>7, <3>3, <3>4, <3>8, HandledAnswers
  <2>12. CASE EntersRaw \/ RawFails
    <3>1. PICK t \in Seq(Token) : t = <<>>
      BY OwnEmpty
    <3>2. Pipe \in Seq(Token) /\ Pipe' = Pipe
      <4>1. arrived' = arrived /\ inFlight' = inFlight
        BY <2>12 DEF EntersRaw, RawFails, channel
      <4> QED
        BY <1>1, <1>3, <4>1, PipeType, PipeSame
    <3>3. Pipe' = Pipe \o t /\ UNCHANGED <<toServer, clientVars>>
      <4>1. Pipe \o <<>> = Pipe
        BY <3>2
      <4> QED
        BY <2>12, <3>1, <3>2, <4>1 DEF EntersRaw, RawFails, channel
    <3>4. PICK failed \in BOOLEAN :
            Handled("handle", "raw", failed) /\ spc' = IF failed THEN "reply" ELSE "raw"
      BY <2>12 DEF EntersRaw, RawFails
    <3>5. log' \in Log /\ (spc' = "reply" => log'.class = "err")
      <4>1. CASE EntersRaw
        BY <1>1, <4>1, LogInfoLog DEF EntersRaw
      <4>2. CASE RawFails
        <5>1. PICK n \in MessageLen : log' = LogError(log, current, n)
          BY <4>2 DEF RawFails
        <5> QED
          BY <1>1, <5>1, LogErrorLog DEF IInv, ErrMsgFits, LogError
      <4> QED
        BY <2>12, <4>1, <4>2
    <3>6. /\ ErrMsgSent(log', current) \in Seq(Token)
          /\ spc' = "reply" => Answered(ErrMsgSent(log', current))
      BY <1>1, <3>5, ErrMsgSentIs
    <3>7. t \o ErrMsgSent(log', current) = ErrMsgSent(log', current)
      BY <3>1, <3>6
    <3>8. /\ \A i \in DOMAIN t : t[i].of = current /\ t[i].kind # "prompt"
          /\ spc' \in {"reply", "raw"} /\ (spc' = "reply" => failed)
      BY <3>1, <3>4
    <3>9. AnswersWith(t, failed)
      BY <3>3, <3>6, <3>7, <3>8 DEF AnswersWith
    <3> QED
      BY <1>1, <1>3a, <1>7, <3>3, <3>4, <3>9, HandledAnswers
  <2>13. ~ReadsLine /\ ~Greets /\ ~ReadsEof /\ ~PromptFails /\ current # 0
    <3>1. current # 0
      BY <1>1, <2>1 DEF TypeOK
    <3> QED
      BY <2>1, <3>1 DEF ReadsLine, Greets, ReadsEof, PromptFails
  <2> QED
    BY <2>3, <2>4, <2>5, <2>6, <2>7, <2>8, <2>9, <2>10, <2>11, <2>12, <2>13
    DEF SessionStep, XmlFails, HexFails, OpenFails, PrecmdFails
<1> QED
  BY <1>1, <1>3, <1>4, <1>5, <1>6, <1>7 DEF Turns

-----------------------------------------------------------------------------
(* The client.                                                             *)

LEMMA Lengths ==
  ASSUME NEW h \in Seq(Token), NEW a \in Seq(Token), NEW f \in Seq(Token), NEW n \in Nat,
         n = Len(h) + Len(a) + Len(f)
  PROVE  /\ n = 0 => f = <<>>
         /\ a # <<>> => n # 0 /\ (n = Len(h) + 1 \/ n = 1 => Tail(a) = <<>> /\ f = <<>>)
<1>0. Len(h) \in Nat /\ Len(a) \in Nat /\ Len(f) \in Nat
  OBVIOUS
<1>1. PICK x \in Nat, y \in Nat, z \in Nat : x = Len(h) /\ y = Len(a) /\ z = Len(f)
  BY <1>0, Zenon
<1>2. a # <<>> => y # 0
  <2>1. a # <<>> => Len(a) # 0
    BY EmptySeq
  <2> QED
    BY <1>1, <2>1
<1>3. z = 0 => f = <<>>
  <2>1. Len(f) = 0 => f = <<>>
    BY EmptySeq
  <2> QED
    BY <1>1, <2>1
<1>4. y = 1 => Tail(a) = <<>>
  <2>1. ASSUME Len(a) = 1 PROVE Tail(a) = <<>>
    <3>1. a # <<>>
      <4>1. Len(<<>>) = 0
        OBVIOUS
      <4> QED
        BY <2>1, <4>1, 0 # 1, Zenon
    <3>2. Tail(a) \in Seq(Token) /\ Len(Tail(a)) = 0
      BY <2>1, <3>1, HeadTailProperties
    <3>3. Tail(a) # <<>> => Len(Tail(a)) \in Nat \ {0}
      BY <3>2, EmptySeq, Zenon
    <3> QED
      BY <3>2, <3>3
  <2> QED
    BY <1>1, <2>1
<1>5. n = x + y + z
  BY <1>1
<1>6. n = 0 => z = 0
  BY <1>5
<1>7. y # 0 => n # 0 /\ (n = x + 1 \/ n = 1 => y = 1 /\ z = 0)
  BY <1>5
<1> QED
  BY <1>1, <1>2, <1>3, <1>4, <1>6, <1>7

\* At a prompt, everything else has been read, and the reply is the outcome of the
\* command that was executed last.
LEMMA FoundAtTheEnd ==
  ASSUME TypeOK, CInv, cpc = "wait", Found
  PROVE  /\ toServer = <<>> /\ spc \in {"read", "gone"} /\ Len(executed) = next
         /\ Tail(arrived) = <<>> /\ inFlight = <<>>
         /\ Reply = Outcome(executed[Len(executed)])
<1>1. arrived # <<>> /\ Head(arrived).kind = "prompt"
  BY DEF Found, Awaited
<1>2. heard \in Seq(Token) /\ arrived \in Seq(Token) /\ inFlight \in Seq(Token)
      /\ Pipe \in Seq(Token) /\ Len(Pipe) = Len(heard) + Len(arrived) + Len(inFlight)
  BY PipeType DEF TypeOK
<1> DEFINE n == Len(heard) + 1
<1>3. n \in DOMAIN Pipe /\ Pipe[n] = Head(arrived)
  BY <1>1, PipeType
<1>4. Answering
  <2>1. Pipe # <<>>
    BY <1>2, <1>3
  <2> QED
    BY <2>1 DEF CInv, Turns, Asked
<1>5. n = Len(Pipe) /\ ~NoPrompt(Pipe)
  BY <1>1, <1>3, <1>4 DEF Answering, NoPrompt
<1>7. Tail(arrived) = <<>> /\ inFlight = <<>>
  <2>1. Len(Pipe) \in Nat
    BY <1>2
  <2> QED
    BY <1>1, <1>2, <1>5, <2>1, Lengths
<1>8. /\ toServer = <<>> /\ spc \in {"read", "gone"} /\ Len(executed) = next
      /\ (Answered(Pipe) <=> ItFailed)
  BY <1>4, <1>5 DEF Answering
<1>9. {heard[i].of : i \in DOMAIN heard} \cup {Head(arrived).of} = {next}
  <2>1. Head(arrived).of = next
    BY <1>3, <1>4 DEF Answering
  <2>2. \A i \in DOMAIN heard : heard[i].of = next
    BY <1>4, PipeType DEF Answering
  <2> QED
    BY <2>1, <2>2
<1>10. heard # <<>> /\ Head(heard).kind = "err" <=> ItFailed
  <2>1. CASE heard # <<>>
    <3>1. Head(Pipe) = Head(heard) /\ Pipe # <<>>
      BY <1>2, <1>3, <2>1, PipeType
    <3> QED
      BY <1>8, <2>1, <3>1 DEF Answered
  <2>2. CASE heard = <<>>
    <3>1. Pipe[1] = Head(arrived)
      BY <1>3, <2>2
    <3>2. Head(Pipe) = Pipe[1]
      BY <1>2, <1>3
    <3>3. ~Answered(Pipe)
      BY <1>1, <3>1, <3>2 DEF Answered
    <3> QED
      BY <1>8, <2>2, <3>3
  <2> QED
    BY <2>1, <2>2
<1>11. executed[Len(executed)].of = next
  <2>1. next \in DOMAIN executed
    BY <1>8, CommandsAssumption DEF TypeOK, Answering
  <2> QED
    BY <1>8, <2>1 DEF CInv, Counted
<1>12. Reply = Outcome(executed[Len(executed)])
  <2>1. Reply = [of |-> {next}, err |-> heard # <<>> /\ Head(heard).kind = "err"]
    BY <1>9, Zenon DEF Reply
  <2>2. Outcome(executed[Len(executed)]) = [of |-> {next}, err |-> ItFailed]
    BY <1>11, Zenon DEF Outcome, ItFailed, LooksFailed
  <2>3. PICK a \in BOOLEAN : a = (heard # <<>> /\ Head(heard).kind = "err")
    BY Zenon
  <2>4. PICK b \in BOOLEAN : b = ItFailed
    <3>1. ItFailed \in BOOLEAN
      <4>1. executed[Len(executed)].failed \in BOOLEAN
        <5>1. executed \in Seq([of : 1..MaxCommands, failed : BOOLEAN]) /\ executed # <<>>
          <6>1. executed \in Seq([of : 1..MaxCommands, failed : BOOLEAN]) /\ next >= 1
                /\ next \in Nat
            BY CommandsAssumption DEF TypeOK
          <6>2. Len(executed) # 0
            BY <1>8, <6>1
          <6>3. Len(<<>>) = 0
            OBVIOUS
          <6>4. executed # <<>>
            BY <6>2, <6>3, Zenon
          <6> QED
            BY <6>1, <6>4, Zenon
        <5>2. executed[Len(executed)] \in [of : 1..MaxCommands, failed : BOOLEAN]
          BY <5>1, LastIn, Zenon
        <5> QED
          BY <5>2
      <4> QED
        BY <4>1, Zenon DEF ItFailed, LooksFailed
    <3> QED
      BY <3>1
  <2>5. a = b
    BY <1>10, <2>3, <2>4, Zenon
  <2> QED
    BY <2>1, <2>2, <2>3, <2>4, <2>5, Zenon
<1> QED
  BY <1>7, <1>8, <1>12

LEMMA EndsKeepsCInv ==
  ASSUME CInv, NEW status \in {"ok", "failed"}, Ends(status)
  PROVE  CInv'
<1>1. UNCHANGED <<next, results, commands, toServer, spc, current, executed>>
      /\ cpc' = status
  BY DEF Ends, sessionVars
<1> QED
  BY <1>1 DEF CInv, Counted, OneLine, Turns

LEMMA ClientKeepsCInv ==
  ASSUME IInv, CInv, ClientStep \/ Arrives \/ ClientDies
  PROVE  CInv'
<1>1. TypeOK /\ Counted /\ OneLine /\ Turns /\ next \in Nat /\ Len(commands) \in Nat
  BY CommandsAssumption DEF IInv, CInv, TypeOK
<1>2. CASE Greeted
  <2>1. Greeting /\ arrived # <<>>
    BY <1>1, <1>2 DEF Greeted, Found, Turns
  <2>2. Len(Pipe) = Len(heard) + Len(arrived) + Len(inFlight)
        /\ heard \in Seq(Token) /\ arrived \in Seq(Token) /\ inFlight \in Seq(Token)
    BY <1>1, PipeType DEF TypeOK
  <2>3. Len(Pipe) \in Nat /\ Pipe \in Seq(Token)
    BY <1>1, PipeType
  <2>4. Len(Pipe) # 0
    BY <2>1, <2>2, <2>3, Lengths
  <2>5. Len(Pipe) = 1 /\ spc \in {"read", "gone"}
    <3>1. Pipe # <<>>
      BY <2>3, <2>4
    <3> QED
      BY <2>1, <3>1 DEF Greeting
  <2>6. Tail(arrived) = <<>> /\ inFlight = <<>>
    BY <2>1, <2>2, <2>3, <2>5, Lengths
  <2>7. heard' = <<>> /\ arrived' = <<>> /\ inFlight' = <<>>
    BY <1>2, <2>6 DEF Greeted
  <2>8. Pipe' = <<>>
    BY <2>7 DEF Pipe
  <2>9. UNCHANGED <<commands, next, results, toServer, spc, current, executed>>
        /\ cpc' = "send"
    BY <1>2 DEF Greeted, sessionVars
  <2>10. Len(executed) = next - 1
    BY <2>1 DEF Greeting
  <2> QED
    BY <1>1, <2>1, <2>5, <2>8, <2>9, <2>10
    DEF CInv, Counted, OneLine, Turns, Between, Greeting
<1>3. CASE Hears \/ Arrives
  <2>1. Pipe' = Pipe
    BY <1>1, <1>3, HearsKeepsPipe
  <2>2. UNCHANGED <<commands, cpc, next, results, toServer, spc, current, executed, log,
                    inherited>>
    BY <1>3 DEF Hears, Arrives, clientVars, sessionVars
  <2>3. ItFailed' = ItFailed
    BY <2>2 DEF ItFailed, LooksFailed
  <2>4. Answering' <=> Answering
    BY <2>1, <2>2, <2>3 DEF Answering, NoPrompt, Answered, Led
  <2> QED
    BY <1>1, <2>1, <2>2, <2>4
    DEF CInv, Counted, OneLine, Turns, Greeting, Between, Asked
<1>4. CASE SendsCommand \/ Disconnects
  <2>1. Between /\ cpc = "send"
    BY <1>1, <1>4 DEF SendsCommand, Disconnects, Turns
  <2>2. PICK line \in {0, next}, place \in {"wait", "bye"} :
          /\ Sends(line, place)
          /\ place = "wait" => line = next /\ next <= Len(commands)
          /\ place = "bye" => line = 0 /\ next > Len(commands)
    BY <1>4 DEF SendsCommand, Disconnects
  <2>3. inFlight = <<>>
    <3>1. Len(Pipe) = Len(heard) + Len(arrived) + Len(inFlight)
          /\ heard \in Seq(Token) /\ arrived \in Seq(Token) /\ inFlight \in Seq(Token)
      BY <1>1, PipeType DEF TypeOK
    <3>2. Len(Pipe) \in Nat /\ Len(Pipe) = 0
      <4>1. Pipe = <<>>
        BY <2>1 DEF Between
      <4> QED
        BY <4>1
    <3>3. PICK n \in Nat : n = Len(Pipe)
      BY <3>2, Zenon
    <3>4. n = Len(heard) + Len(arrived) + Len(inFlight) /\ n = 0
      BY <3>1, <3>2, <3>3, Zenon
    <3> QED
      BY <3>1, <3>4, Lengths
  <2>4. UNCHANGED <<commands, next, results, spc, current, executed>> /\ cpc' = place
        /\ heard' = <<>> /\ arrived' = <<>> /\ inFlight' = <<>>
    BY <2>2, <2>3 DEF Sends, sessionVars
  <2>5. Pipe' = <<>>
    BY <2>4 DEF Pipe
  <2>6. toServer' = <<line>>
    BY <2>1, <2>2 DEF Sends, Between
  <2> HIDE <1>4
  <2>7. CASE place = "wait"
    BY <1>1, <2>1, <2>2, <2>4, <2>5, <2>6, <2>7
    DEF CInv, Counted, OneLine, Turns, Between, Asked
  <2>8. CASE place = "bye"
    BY <1>1, <2>1, <2>2, <2>4, <2>5, <2>6, <2>8
    DEF CInv, Counted, OneLine, Turns, Between, Asked
  <2> QED
    BY <2>2, <2>7, <2>8
<1>5. CASE Replied
  <2>1. /\ toServer = <<>> /\ spc \in {"read", "gone"} /\ Len(executed) = next
        /\ Tail(arrived) = <<>> /\ inFlight = <<>>
    BY <1>1, <1>5, FoundAtTheEnd DEF Replied
  <2>2. UNCHANGED <<commands, toServer, spc, current, executed>> /\ cpc' = "send"
        /\ heard' = <<>> /\ arrived' = <<>> /\ inFlight' = <<>> /\ next' = next + 1
        /\ results' = Append(results, Reply)
    BY <1>5, <2>1 DEF Replied, sessionVars
  <2>3. Pipe' = <<>>
    BY <2>2 DEF Pipe
  <2>4. Len(results') = next' - 1
    <3>1. Len(results') = Len(results) + 1 /\ Len(results) \in Nat
      BY <1>1, <2>2 DEF TypeOK
    <3> QED
      BY <1>1, <2>2, <3>1 DEF Counted
  <2> QED
    BY <1>1, <2>1, <2>2, <2>3, <2>4 DEF CInv, Counted, OneLine, Turns, Between
<1>6. CASE SendFails \/ TimesOut \/ FindsEof \/ Finishes \/ ClientDies
  <2>1. PICK status \in {"ok", "failed"} : Ends(status)
    BY <1>6 DEF SendFails, TimesOut, FindsEof, Finishes, ClientDies
  <2> QED
    BY <2>1, EndsKeepsCInv
<1> QED
  BY <1>2, <1>3, <1>4, <1>5, <1>6 DEF ClientStep

LEMMA CInvStep == IInv /\ CInv /\ [Next]_vars => CInv'
<1> SUFFICES ASSUME IInv, CInv, [Next]_vars PROVE CInv'
  OBVIOUS
<1>1. CASE SessionStep \/ LogsOnTheWay \/ SessionDies
  BY <1>1, SessionKeepsCount, SessionTakesTurns DEF CInv
<1>2. CASE ClientStep \/ Arrives \/ ClientDies
  BY <1>2, ClientKeepsCInv
<1>3. CASE UNCHANGED vars
  <2>1. UNCHANGED <<commands, cpc, next, heard, results, arrived, inFlight, toServer, spc,
                    current, executed, log, inherited>>
    BY <1>3 DEF vars, clientVars, channel, sessionVars
  <2> QED
    BY <2>1, SMTT(30) DEF CInv, Counted, OneLine, Turns, Greeting, Between, Asked, Answering,
       NoPrompt, Answered, Pipe, ItFailed, LooksFailed, Led
<1> QED
  BY <1>1, <1>2, <1>3 DEF Next, Over

LEMMA CInvInit == Init => CInv
<1> SUFFICES ASSUME Init PROVE CInv
  OBVIOUS
<1>1. Pipe = <<>>
  BY DEF Init, Pipe
<1> QED
  BY <1>1 DEF Init, CInv, Counted, OneLine, Turns, Greeting

\* The invariant the theorems below follow from: errMsg holds errors of the present
\* command only, and nothing that a later sendErrMsg() would send; until the first line
\* is read it may hold what the daemon logged.  That this line is the first needs the
\* turns that client and session take.
THEOREM InvariantHolds == Spec => [](IInv /\ CInv)
BY InitIInv, IInvStep, CInvInit, CInvStep, PTL DEF Spec

\* Client and session take turns (sendTrList() and interactive()): at most one line is
\* under way, for a command that has not been executed, and the session's answer ends
\* with the only prompt in it, after an error if and only if the command has failed or,
\* in the reply to the first, the daemon's last error is passed on.
THEOREM TakesTurns == Spec => []CInv
BY InvariantHolds, PTL

\* Client, session and channel keep their ranges.
THEOREM TypeCorrect == Spec => []TypeOK
<1>1. IInv => TypeOK
  BY DEF IInv
<1>2. QED
  BY <1>1, InvariantHolds, PTL

\* errMsg, which logIT() fills in processes that never send it, does not overflow.
THEOREM ErrMsgNeverOverflows == Spec => []ErrMsgFits
<1>1. IInv => ErrMsgFits
  BY DEF IInv
<1>2. QED
  BY <1>1, InvariantHolds, PTL

\* A reply carries errors of the command it answers, and of no other (sendErrMsg(), which
\* interactive() calls before it looks at a line); but the first may carry those that the
\* child inherited after a SIGHUP just before fork() (vcontrold.c:94, socket.c:145).
THEOREM ErrorsAreOwn == Spec => []ErrorsOfOwnCommand
<1>1. IInv => ErrorsOfOwnCommand
  BY DEF IInv
<1>2. QED
  BY <1>1, InvariantHolds, PTL

-----------------------------------------------------------------------------
(* Implementation of Calls.                                                *)

\* The variables of Calls that are expressions here.
Outcomes == [i \in 1..Len(executed) |-> Outcome(executed[i])]
Told == IF ClientIsGone THEN cpc ELSE "running"

\* A command that has been handled is carried out: it is the next one.
LEMMA HandledExecutes ==
  ASSUME TypeOK, CInv, NEW place \in {"handle", "execute"}, NEW kind,
         NEW failed \in BOOLEAN, Handled(place, kind, failed), UNCHANGED clientVars
  PROVE  Promise!Execute
<1>1. /\ commands' = commands /\ cpc' = cpc /\ next' = next /\ results' = results
      /\ inherited' = inherited
  BY DEF clientVars, Handled
<1>2. /\ next <= Len(commands)
      /\ Len(executed) = next - 1 /\ Len(executed') = next
      /\ executed' = Append(executed, [of |-> next, failed |-> failed])
  BY <1>1, HandledCounts DEF CInv
<1>3. next \in Nat /\ Len(commands) \in Nat /\ Len(results) = next - 1
      /\ executed \in Seq([of : 1..MaxCommands, failed : BOOLEAN])
  BY DEF TypeOK, CInv, Counted
<1>4. Len(Outcomes) = next - 1 /\ Len(executed) + 1 = next
  BY <1>2, <1>3 DEF Outcomes
<1> DEFINE e == [of |-> next, failed |-> failed]
           After(x) == [of |-> {x.of}, err |-> \/ x.failed /\ commands[x.of] # "reload"
                                               \/ inherited = "err" /\ x.of = 1]
           o == [of |-> {next}, err |-> \/ failed /\ commands[next] # "reload"
                                        \/ inherited = "err" /\ next = 1]
<1>5. \A i \in 1..Len(executed) : executed'[i] = executed[i]
  BY <1>2, <1>3
<1>6. executed'[next] = e
  BY <1>2, <1>3
<1>7. After(executed'[next]) = o
  BY <1>6
<1> HIDE DEF e, o
<1>8. Outcomes' = Append(Outcomes, o)
  <2>1. Outcomes' = [i \in 1..next |-> After(executed'[i])]
    BY <1>1, <1>2, Zenon DEF Outcomes, Outcome
  <2>2. Outcomes = [i \in 1..(next - 1) |-> After(executed[i])]
    BY <1>2, Zenon DEF Outcomes, Outcome
  <2>3. Outcomes'[next] = o
    <3>1. next \in 1..next
      BY <1>3, <1>2, CommandsAssumption DEF TypeOK
    <3> QED
      BY <1>7, <2>1, <3>1, Zenon
  <2>4. \A i \in 1..(next - 1) : Outcomes'[i] = Outcomes[i]
    <3>1. \A i \in 1..(next - 1) : i \in 1..next /\ i \in 1..Len(executed)
      BY <1>2, <1>3
    <3> QED
      BY <1>5, <2>1, <2>2, <3>1, Zenon
  <2>5. PICK m \in Nat : m = next - 1 /\ next = m + 1
    BY <1>2, <1>3
  <2>6. Outcomes' = [i \in 1..(m + 1) |-> Outcomes'[i]]
        /\ Outcomes = [i \in 1..m |-> Outcomes[i]]
    BY <2>1, <2>2, <2>5, Zenon
  <2>7. PICK f, g : f = Outcomes /\ g = Outcomes'
    OBVIOUS
  <2>8. g = Append(f, g[m + 1])
    <3>1. \A i \in 1..m : g[i] = f[i]
      BY <2>4, <2>5, <2>7, Zenon
    <3>2. IsList(g, m + 1) /\ IsList(f, m)
      BY <2>6, <2>7, Zenon DEF IsList
    <3> QED
      BY <3>1, <3>2, AppendIs, Zenon
  <2> QED
    BY <2>3, <2>5, <2>7, <2>8, Zenon
<1>9. o \in Promise!Result(Len(Outcomes) + 1)
  <2>1. Len(Outcomes) + 1 = next
    BY <1>3, <1>4
  <2>2. ((failed /\ commands[next] # "reload") \/ (inherited = "err" /\ next = 1)) \in BOOLEAN
    BY Zenon
  <2> QED
    BY <2>1, <2>2 DEF o, Promise!Result
<1>10. Len(Outcomes) = Len(results) /\ Len(Outcomes) < Len(commands)
  BY <1>2, <1>3, <1>4
<1> QED
  BY <1>1, <1>8, <1>9, <1>10 DEF Promise!Execute, Outcomes, Told, ClientIsGone

\* The end of the client is told: the list is done, or it is not.
LEMMA EndIsTold ==
  ASSUME TypeOK, CInv, ~ClientIsGone, NEW status \in {"ok", "failed"}, Ends(status),
         status = "ok" => next > Len(commands)
  PROVE  Promise!Succeed \/ Promise!Fail
<1>1. /\ UNCHANGED <<commands, next, results, executed, inherited>> /\ cpc' = status
      /\ Told = "running" /\ Told' = status
  BY DEF Ends, sessionVars, Told, ClientIsGone
<1>2. Outcomes' = Outcomes
  BY <1>1 DEF Outcomes, Outcome
<1>3. status = "ok" => Len(results) = Len(commands)
  BY DEF TypeOK, CInv, Counted
<1> QED
  BY <1>1, <1>2, <1>3 DEF Promise!Succeed, Promise!Fail, Outcomes, Told

LEMMA NothingTold ==
  ASSUME UNCHANGED <<commands, results, executed, inherited>>, Told' = Told
  PROVE  UNCHANGED Promise!vars
<1>1. Outcomes' = Outcomes
  BY DEF Outcomes, Outcome
<1> QED
  BY <1>1 DEF Promise!vars, Outcomes, Told

LEMMA SessionStepImplements ==
  ASSUME TypeOK, CInv, SessionStep \/ LogsOnTheWay \/ SessionDies
  PROVE  Promise!Execute \/ UNCHANGED Promise!vars
<1>1. UNCHANGED clientVars
  BY DEF SessionStep, LogsOnTheWay, SessionDies, Greets, ReadsLine, ReadsEof, Begins,
     XmlSucceeds, XmlFails, HexFails, OpenFails, Closed, PrecmdFails, AnswersText,
     AnswersUnknown, AnswersReload, EntersRaw, RawFails, Quits, Prompts, PromptsOnly,
     PromptFails, Leaves, Writes, ReportsError
<1>1a. inherited' = inherited
  BY SessionKeepsInherited
<1>2. ASSUME UNCHANGED executed PROVE UNCHANGED Promise!vars
  BY <1>1, <1>1a, <1>2, NothingTold DEF clientVars, Told, ClientIsGone
<1>3. ASSUME NEW place \in {"handle", "execute"}, NEW kind, NEW failed \in BOOLEAN,
             Handled(place, kind, failed)
      PROVE  Promise!Execute
  BY <1>1, <1>3, HandledExecutes
<1>4. CASE XmlSucceeds
  BY <1>3, <1>4 DEF XmlSucceeds
<1>5. CASE XmlFails \/ HexFails \/ OpenFails \/ PrecmdFails
  BY <1>3, <1>5 DEF XmlFails, HexFails, OpenFails, PrecmdFails
<1>6. CASE AnswersText \/ AnswersUnknown \/ EntersRaw \/ RawFails
  BY <1>3, <1>6 DEF AnswersText, AnswersUnknown, EntersRaw, RawFails
<1>7. CASE AnswersReload \/ Quits
  BY <1>2, <1>3, <1>7 DEF AnswersReload, Quits
<1>8. CASE \/ Greets \/ ReadsLine \/ ReadsEof \/ Begins \/ Closed \/ Prompts \/ PromptsOnly
           \/ PromptFails \/ Leaves \/ LogsOnTheWay \/ SessionDies
  BY <1>2, <1>8 DEF Greets, ReadsLine, ReadsEof, Begins, Closed, Prompts, PromptsOnly,
     PromptFails, Leaves, LogsOnTheWay, SessionDies
<1> QED
  BY <1>4, <1>5, <1>6, <1>7, <1>8 DEF SessionStep

LEMMA ClientStepImplements ==
  ASSUME IInv, CInv, ClientStep \/ Arrives \/ ClientDies
  PROVE  Promise!Next \/ UNCHANGED Promise!vars
<1>1. TypeOK /\ InList
  BY DEF IInv
<1>2. CASE Greeted \/ Hears \/ SendsCommand \/ Disconnects \/ Arrives
  <2>1. UNCHANGED <<commands, results, executed, inherited>>
        /\ ~ClientIsGone /\ ~ClientIsGone'
    BY <1>2 DEF Greeted, Hears, SendsCommand, Disconnects, Arrives, Sends, clientVars,
       sessionVars, ClientIsGone, Waiting
  <2> QED
    BY <2>1, NothingTold DEF Told
<1>3. CASE Replied
  <2>1. Len(executed) = next /\ Reply = Outcome(executed[Len(executed)])
    BY <1>1, <1>3, FoundAtTheEnd DEF Replied
  <2>2. UNCHANGED <<commands, executed, inherited>> /\ results' = Append(results, Reply)
        /\ Told = "running" /\ Told' = "running"
    BY <1>3 DEF Replied, sessionVars, Told, ClientIsGone
  <2>3. Outcomes' = Outcomes
    BY <2>2 DEF Outcomes, Outcome
  <2>4. next \in Nat \ {0} /\ Len(results) = next - 1
    BY <1>1 DEF TypeOK, CInv, Counted
  <2>5. Len(Outcomes) = next /\ Outcomes[next] = Outcome(executed[next])
    BY <2>1, <2>4 DEF Outcomes
  <2>6. Len(results) < Len(Outcomes) /\ results' = Append(results, Outcomes[Len(Outcomes)])
    BY <2>1, <2>2, <2>4, <2>5
  <2> QED
    BY <2>2, <2>3, <2>6 DEF Promise!Next, Promise!Return, Outcomes, Told
<1>4. CASE SendFails \/ TimesOut \/ FindsEof \/ Finishes \/ ClientDies
  <2>1. ~ClientIsGone
    BY <1>4 DEF SendFails, TimesOut, FindsEof, Finishes, ClientDies, Waiting, ClientIsGone
  <2>2. \E status \in {"ok", "failed"} :
          Ends(status) /\ (status = "ok" => next > Len(commands))
    <3>1. cpc = "bye" => next > Len(commands)
      BY DEF CInv, Counted
    <3> QED
      BY <1>4, <3>1 DEF SendFails, TimesOut, FindsEof, Finishes, ClientDies
  <2> QED
    BY <1>1, <2>1, <2>2, EndIsTold DEF Promise!Next
<1> QED
  BY <1>2, <1>3, <1>4 DEF ClientStep

\* Initially nothing has been carried out and nothing told.
LEMMA InitImplements == Init => Promise!Init
<1> SUFFICES ASSUME Init PROVE Promise!Init
  OBVIOUS
<1>1. PICK n \in 1..MaxCommands : commands \in [1..n -> CommandKind]
  BY DEF Init
<1>2. Len(commands) \in Nat \ {0}
  BY <1>1, CommandsAssumption
<1>3. executed = <<>> /\ results = <<>> /\ cpc = "greet"
  BY DEF Init
<1>4. Outcomes = <<>>
  BY <1>3 DEF Outcomes
<1> QED
  BY <1>2, <1>3, <1>4 DEF Promise!Init, Outcomes, ClientIsGone

\* What client.c promises vclient (sendTrList(), recvSync()): whatever the session, the
\* network and the timeouts do, commands are executed in order and at most once, each
\* result is that of its command, and a list is reported as done only when it is.
THEOREM ImplementsItsCalls == Spec => ImplementsCalls
<1>1. IInv /\ CInv /\ [Next]_vars => [Promise!Next]_(Promise!vars)
  <2> SUFFICES ASSUME IInv, CInv, [Next]_vars PROVE [Promise!Next]_(Promise!vars)
    OBVIOUS
  <2>1. CASE SessionStep \/ LogsOnTheWay \/ SessionDies
    BY <2>1, SessionStepImplements DEF IInv, Promise!Next
  <2>2. CASE ClientStep \/ Arrives \/ ClientDies
    BY <2>2, ClientStepImplements
  <2>3. CASE UNCHANGED vars
    BY <2>3, NothingTold DEF vars, clientVars, sessionVars, Told, ClientIsGone
  <2> QED
    BY <2>1, <2>2, <2>3 DEF Next, Over
<1> QED
  BY <1>1, InitImplements, InvariantHolds, PTL DEF Spec, ImplementsCalls, Promise!Spec
=============================================================================
