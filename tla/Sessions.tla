------------------------------ MODULE Sessions ------------------------------
(***************************************************************************)
(* The daemon of vcontrold.c in daemon mode: main() accepts connections    *)
(* and forks one process per session, interactive() serves the requests of *)
(* one session, and the System V semaphore of semaphore.c decides which    *)
(* session may use the link to the heating.                                *)
(*                                                                         *)
(* One process step is one call that other processes can observe: a        *)
(* semaphore operation, opening or closing the device, the execution of a  *)
(* command, a blocking read or write on the client's socket.  What happens *)
(* on the link while a command executes is the subject of ByteCode and     *)
(* Framer.                                                                 *)
(***************************************************************************)
EXTENDS Integers, FiniteSets

CONSTANTS
  Session,   \* slots for session processes
  SEMVMX     \* largest value of a System V semaphore (32767 on Linux)

ASSUME SessionAssumption == IsFiniteSet(Session)   \* as many as there are process ids
ASSUME SemvmxAssumption == SEMVMX \in Nat \ {0}

VARIABLES
  listening,     \* main() is in its accept loop
  alive,         \* the semaphore set that main() created last exists
  semval,        \* its value
  adj,           \* the kernel's SEM_UNDO adjustment of each process
  pc,            \* where each session process is
  fd,            \* interactive()'s local fd is an open device
  orphan,        \* the semaphore set this process uses has been removed
  overReleased,  \* history: some process released a lock it did not hold
  saturated,     \* history: an adjustment was cut off at SEMVMX
  restarted      \* history: the daemon has been started a second time

vars == <<listening, alive, semval, adj, pc, fd, orphan, overReleased,
          saturated, restarted>>

(***************************************************************************)
(* The places of a session process:                                        *)
(*   none        no process                                                *)
(*   prompt      blocked in Readline() for the next request                *)
(*   semget      blocked in semop(-1) before opening the device            *)
(*   open        in framer_openDevice()                                    *)
(*   exec        in execByteCode() of the pre command or the command       *)
(*   reply       writing errors and the prompt                             *)
(*   openReply   writing the prompt after the device could not be opened   *)
(*   closing     in framer_closeDevice(), the session goes on              *)
(*   leaving     in framer_closeDevice(), the session ends                 *)
(*   rel*        in vcontrol_semrelease(), named for what comes after it   *)
(*   exit        interactive() has returned, the process is about to exit  *)
(*   raw         in rawModus(), reading lines until END                    *)
(*   raw*        in readCmdFile(), which opens the device for itself       *)
(***************************************************************************)
Waiting   == {"semget", "rawSemget"}
Releasing == {"relReply", "relOpenReply", "relExit"}
Place     == {"none", "prompt", "open", "exec", "reply", "openReply",
              "closing", "leaving", "exit", "raw", "rawOpen", "rawExec",
              "rawClose"} \cup Waiting \cup Releasing

LinkPlace == {"open", "rawOpen", "rawExec", "rawClose"}

\* Session s may be talking to the device.
OnLink(s) == fd[s] \/ pc[s] \in LinkPlace

Init ==
  /\ listening = TRUE
  /\ alive = TRUE
  /\ semval = 1
  /\ adj = [s \in Session |-> 0]
  /\ pc = [s \in Session |-> "none"]
  /\ fd = [s \in Session |-> FALSE]
  /\ orphan = [s \in Session |-> FALSE]
  /\ overReleased = FALSE
  /\ saturated = FALSE
  /\ restarted = FALSE

semaphore == <<listening, alive, semval, adj, orphan, overReleased, saturated, restarted>>

\* Session s goes from one place to another and touches nothing else.
Goes(s, from, to) ==
  /\ pc[s] = from
  /\ pc' = [pc EXCEPT ![s] = to]
  /\ UNCHANGED <<fd, semaphore>>

-----------------------------------------------------------------------------
(***************************************************************************)
(* The end of a process.  The kernel closes its descriptors and applies    *)
(* its SEM_UNDO adjustment, silently keeping the value within 0..SEMVMX.   *)
(***************************************************************************)
\* Variant: the range of the value is not enforced.
Undone_Unchecked(v) == v

Undone(v) == IF v < 0 THEN 0 ELSE IF v > SEMVMX THEN SEMVMX ELSE v

\* Variant: the semaphore operations without SEM_UNDO.
ProcessEnds_NoUndo(s) ==
  /\ pc' = [pc EXCEPT ![s] = "none"]
  /\ fd' = [fd EXCEPT ![s] = FALSE]
  /\ adj' = [adj EXCEPT ![s] = 0]
  /\ orphan' = [orphan EXCEPT ![s] = FALSE]
  /\ UNCHANGED <<listening, alive, semval, overReleased, saturated, restarted>>

ProcessEnds(s) ==
  /\ pc' = [pc EXCEPT ![s] = "none"]
  /\ fd' = [fd EXCEPT ![s] = FALSE]
  /\ semval' = IF orphan[s] THEN semval ELSE Undone(semval + adj[s])
  /\ adj' = [adj EXCEPT ![s] = 0]
  /\ orphan' = [orphan EXCEPT ![s] = FALSE]
  /\ saturated' = (saturated \/ (~orphan[s] /\ semval + adj[s] > SEMVMX))
  /\ UNCHANGED <<listening, alive, overReleased, restarted>>

\* vcontrol_semfree(): IPC_RMID removes the set with its value and its
\* adjustments; whoever still runs keeps an identifier of nothing.
vcontrol_semfree ==
  /\ alive' = FALSE
  /\ semval' = 0
  /\ adj' = [s \in Session |-> 0]
  /\ orphan' = [s \in Session |-> pc'[s] # "none"]

(***************************************************************************)
(* Semaphore operations (semaphore.c).  Both exit the process when semop() *)
(* fails: the set was removed, a signal interrupted the wait, or value or  *)
(* adjustment would leave the range System V allows.                       *)
(***************************************************************************)
\* Variant: the lock is taken without SEM_UNDO, but given back with it.
vcontrol_semget_NoUndo(s, to) ==
  /\ ~orphan[s]
  /\ semval > 0
  /\ semval' = semval - 1
  /\ pc' = [pc EXCEPT ![s] = to]
  /\ UNCHANGED <<fd, adj, listening, alive, orphan, overReleased, saturated, restarted>>

vcontrol_semget(s, to) ==
  /\ ~orphan[s]
  /\ semval > 0
  /\ adj[s] < SEMVMX
  /\ semval' = semval - 1
  /\ adj' = [adj EXCEPT ![s] = @ + 1]
  /\ pc' = [pc EXCEPT ![s] = to]
  /\ UNCHANGED <<fd, listening, alive, orphan, overReleased, saturated, restarted>>

vcontrol_semrelease(s, to) ==
  /\ ~orphan[s]
  /\ semval < SEMVMX
  /\ adj[s] > -SEMVMX - 1
  /\ semval' = semval + 1
  /\ adj' = [adj EXCEPT ![s] = @ - 1]
  /\ overReleased' = (overReleased \/ adj[s] <= 0)
  /\ pc' = [pc EXCEPT ![s] = to]
  /\ UNCHANGED <<fd, listening, alive, orphan, saturated, restarted>>

AfterRelease(s) == CASE pc[s] = "relReply" -> "reply"
                     [] pc[s] = "relOpenReply" -> "openReply"
                     [] OTHER -> "exit"

AfterGet(s) == IF pc[s] = "semget" THEN "open" ELSE "rawOpen"

Acquire(s) == pc[s] \in Waiting /\ vcontrol_semget(s, AfterGet(s))

Release(s) == pc[s] \in Releasing /\ vcontrol_semrelease(s, AfterRelease(s))

\* semop() fails with EIDRM, EINVAL or ERANGE.
SemopFails(s) ==
  /\ \/ pc[s] \in Waiting /\ (orphan[s] \/ (semval > 0 /\ adj[s] = SEMVMX))
     \/ pc[s] \in Releasing /\ (orphan[s] \/ semval = SEMVMX \/ adj[s] = -SEMVMX - 1)
  /\ ProcessEnds(s)

\* semop() is never restarted after a signal handler ran: EINTR.
SemopInterrupted(s) == pc[s] \in Waiting /\ ProcessEnds(s)

-----------------------------------------------------------------------------
(***************************************************************************)
(* main() and signals                                                      *)
(***************************************************************************)
\* listenToSocket() returns in a forked child, which calls interactive().
\* A child starts without adjustments and writes its first prompt.
Accept(s) ==
  /\ listening
  /\ pc[s] = "none"
  /\ pc' = [pc EXCEPT ![s] = "prompt"]
  /\ orphan' = [orphan EXCEPT ![s] = ~alive]
  /\ UNCHANGED <<listening, alive, semval, adj, fd, overReleased, saturated,
                 restarted>>

\* SIGTERM, SIGINT or SIGQUIT in the daemon itself: sigTermHandler().
TermDaemon ==
  /\ listening
  /\ listening' = FALSE
  /\ UNCHANGED <<pc, fd, overReleased, saturated, restarted>>
  /\ vcontrol_semfree

\* A child inherits sigTermHandler() and with it the call of semfree().
TermSession(s) ==
  /\ pc[s] # "none"
  /\ IF orphan[s]
       THEN ProcessEnds(s)       \* semctl() fails, exit(1)
       ELSE /\ pc' = [pc EXCEPT ![s] = "none"]
            /\ fd' = [fd EXCEPT ![s] = FALSE]
            /\ vcontrol_semfree
            /\ UNCHANGED <<listening, overReleased, saturated, restarted>>

\* A session process is killed, or crashes.
Killed(s) == pc[s] # "none" /\ ProcessEnds(s)

\* The daemon is started again: vcontrol_seminit() creates a set of its own,
\* under the name of a new temporary file.
Restart ==
  /\ ~listening
  /\ listening' = TRUE
  /\ alive' = TRUE
  /\ semval' = 1
  /\ overReleased' = FALSE
  /\ saturated' = FALSE
  /\ restarted' = TRUE
  /\ UNCHANGED <<pc, fd, adj, orphan>>

-----------------------------------------------------------------------------
(***************************************************************************)
(* interactive(): what the client asks for                                 *)
(***************************************************************************)
\* Variant: the device is opened without the lock.
Command_Unlocked(s) == Goes(s, "prompt", IF fd[s] THEN "exec" ELSE "open")

\* A command of the XML file with well-formed parameters: the device is
\* opened first unless it is open already.
Command(s) == Goes(s, "prompt", IF fd[s] THEN "exec" ELSE "semget")

\* help, unit, detail, reload, ..., unknown commands and bad parameters: all
\* of them are answered without the link.
OtherRequest(s) == Goes(s, "prompt", "reply")

\* close, quit and end of file close and release whatever fd is.
CloseRequest(s) == Goes(s, "prompt", "closing")
Quit(s)         == Goes(s, "prompt", "leaving")
EndOfFile(s)    == Goes(s, "prompt", "leaving")

RawRequest(s) == Goes(s, "prompt", "raw")
RawEnd(s)     == Goes(s, "raw", "rawSemget")
RawEof(s)     == Goes(s, "raw", "reply")

(***************************************************************************)
(* interactive(): the session's own steps                                  *)
(***************************************************************************)
OpenDevice(s) ==
  /\ pc[s] = "open"
  /\ pc' = [pc EXCEPT ![s] = "exec"]
  /\ fd' = [fd EXCEPT ![s] = TRUE]
  /\ UNCHANGED semaphore

\* Variant: the error path of a failed open forgets the release.
OpenFails_KeepsLock(s) == Goes(s, "open", "openReply")

\* openDevice() or open_p300() failed: fd is -1 and there is nothing to close.
OpenFails(s) == Goes(s, "open", "relOpenReply")

\* A serial device that cannot be opened or configured ends the process.
TtyFails(s) == pc[s] \in {"open", "rawOpen"} /\ ProcessEnds(s)

Executed(s)    == Goes(s, "exec", "reply")
PrecmdFails(s) == Goes(s, "exec", "leaving")

\* waitfor() loses synchronization, or a raw SEND or RECV fails: exit(1).
LostSync(s) == pc[s] \in {"exec", "rawExec"} /\ ProcessEnds(s)

\* Variant: "close" forgets to set fd to -1.
CloseDevice_StaleFd(s) ==
  /\ pc[s] \in {"closing", "leaving"}
  /\ pc' = [pc EXCEPT ![s] = IF @ = "closing" THEN "relReply" ELSE "relExit"]
  /\ UNCHANGED <<fd, semaphore>>

CloseDevice(s) ==
  /\ pc[s] \in {"closing", "leaving"}
  /\ pc' = [pc EXCEPT ![s] = IF @ = "closing" THEN "relReply" ELSE "relExit"]
  /\ fd' = [fd EXCEPT ![s] = FALSE]
  /\ UNCHANGED semaphore

Reply(s)          == Goes(s, "reply", "prompt")
ReplyFails(s)     == Goes(s, "reply", "leaving")
OpenReply(s)      == Goes(s, "openReply", "prompt")
OpenReplyFails(s) == Goes(s, "openReply", "exit")

Exits(s) == pc[s] = "exit" /\ ProcessEnds(s)

(***************************************************************************)
(* readCmdFile(): opens a device of its own, executes the lines, closes it *)
(***************************************************************************)
RawOpens(s)     == Goes(s, "rawOpen", "rawExec")
RawOpenFails(s) == Goes(s, "rawOpen", "relReply")
RawExecuted(s)  == Goes(s, "rawExec", "rawClose")
RawCloses(s)    == Goes(s, "rawClose", "relReply")

-----------------------------------------------------------------------------
Request(s) == \/ Command(s) \/ OtherRequest(s) \/ CloseRequest(s) \/ Quit(s)
              \/ EndOfFile(s) \/ RawRequest(s) \/ RawEnd(s) \/ RawEof(s)

\* The steps a session takes without waiting for its client or the lock.
Proceed(s) == \/ OpenDevice(s) \/ OpenFails(s) \/ TtyFails(s)
              \/ Executed(s) \/ PrecmdFails(s) \/ LostSync(s)
              \/ CloseDevice(s) \/ Release(s) \/ SemopFails(s)
              \/ Reply(s) \/ ReplyFails(s) \/ OpenReply(s) \/ OpenReplyFails(s)
              \/ RawOpens(s) \/ RawOpenFails(s) \/ RawExecuted(s) \/ RawCloses(s)
              \/ Exits(s)

Signal(s) == SemopInterrupted(s) \/ TermSession(s) \/ Killed(s)

Next == \/ \E s \in Session : \/ Accept(s) \/ Request(s) \/ Acquire(s)
                              \/ Proceed(s) \/ Signal(s)
        \/ TermDaemon
        \/ Restart

Spec == Init /\ [][Next]_vars

(***************************************************************************)
(* Fairness.  A process that is not blocked runs on, every wait for the    *)
(* device has a timeout, and the kernel serves waiters in the order in     *)
(* which they came, so that a process does not starve while others pass.   *)
(* A client need not talk, but one whose session has the device open       *)
(* leaves in the end, and raw input ends in the end.                       *)
(***************************************************************************)
Fairness == \A s \in Session : /\ WF_vars(Proceed(s))
                               /\ SF_vars(Acquire(s))

PoliteClients == \A s \in Session : /\ SF_vars(fd[s] /\ (Quit(s) \/ EndOfFile(s)))
                                    /\ WF_vars(RawEnd(s) \/ RawEof(s))

FairSpec == Spec /\ Fairness /\ PoliteClients

-----------------------------------------------------------------------------
(***************************************************************************)
(* Properties                                                              *)
(***************************************************************************)
TypeOK ==
  /\ listening \in BOOLEAN
  /\ alive \in BOOLEAN
  /\ semval \in 0..SEMVMX
  /\ adj \in [Session -> (-SEMVMX - 1)..SEMVMX]
  /\ pc \in [Session -> Place]
  /\ fd \in [Session -> BOOLEAN]
  /\ orphan \in [Session -> BOOLEAN]
  /\ overReleased \in BOOLEAN
  /\ saturated \in BOOLEAN
  /\ restarted \in BOOLEAN

\* Two sessions are on the link at once only if some process released a lock
\* it did not hold, or one of them is left over from an earlier daemon: from
\* framer_openDevice() to framer_closeDevice() the link belongs to one session
\* of one daemon, through crashes, failed opens, raw mode and SIGTERM.
ExclusiveUnlessOverReleased ==
  overReleased \/ \A s, t \in Session :
    OnLink(s) /\ OnLink(t) => s = t \/ (restarted /\ (orphan[s] \/ orphan[t]))

\* framer.c: the semaphore covers "all from open until close to avoid
\* disturbance by other client trying to do uncoordinated open/close".
ExclusiveLink ==
  \A s, t \in Session :
    OnLink(s) /\ OnLink(t) /\ ~orphan[s] /\ ~orphan[t] => s = t

\* The lock is never lost: when no live process has net acquisitions to its
\* name the semaphore can be taken, however sessions ended (SEM_UNDO) and
\* however often they released too much, short of 32767 times.
LockNeverLost ==
  alive /\ ~saturated /\ (\A s \in Session : adj[s] <= 0) => semval >= 1

\* A session on the link of a living daemon is charged for the lock: if it
\* died now, the kernel would give the lock back.
LinkIsCharged ==
  ~overReleased => \A s \in Session : OnLink(s) /\ ~orphan[s] => adj[s] = 1

\* A session waiting for the lock gets it, or ends because the semaphore was
\* removed, unless a session asks for raw mode while it has the device open.
WaitersProceed ==
  [](~saturated /\ \A s \in Session : pc[s] = "rawSemget" => ~fd[s])
    => \A s \in Session : pc[s] \in Waiting ~> pc[s] \notin Waiting

\* printHelp(): raw mode is "terminated with END": after END readCmdFile()
\* runs and the session is back at its prompt, or has ended.
RawTerminates ==
  \A s \in Session : pc[s] = "rawSemget" ~> pc[s] \in {"prompt", "none"}

Lock == INSTANCE LinkLock WITH users <- {s \in Session : OnLink(s)},
                               void  <- overReleased \/ restarted

\* The daemon implements the abstract lock: until the first release of a lock that
\* is not held, the link passes from one session to the next only by being free.
ImplementsLinkLock == Lock!Spec
=============================================================================
