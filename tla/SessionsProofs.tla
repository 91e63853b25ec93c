--------------------------- MODULE SessionsProofs ---------------------------
(***************************************************************************)
(* Theorems about Sessions for any number of sessions and any SEMVMX:      *)
(* type correctness, exclusive use of the link as long as no lock is       *)
(* released that is not held, and the implementation of LinkLock.          *)
(***************************************************************************)
EXTENDS Sessions, FiniteSetTheorems, TLAPS

(***************************************************************************)
(* The inductive invariant.  Exclusive use of the link is not inductive:   *)
(* it rests on the account the kernel keeps.  While releases are balanced  *)
(* at most one process of the living daemon is charged for the lock, the   *)
(* semaphore is 0 exactly while one is, and whoever is on the link is      *)
(* charged.  The other parts say what removing the semaphore and starting  *)
(* the daemon again leave behind.                                          *)
(***************************************************************************)
\* A slot without a process holds nothing; an orphan is charged for nothing.
SlotsClean == \A s \in Session :
  /\ pc[s] = "none" => ~fd[s] /\ adj[s] = 0 /\ ~orphan[s]
  /\ orphan[s] => adj[s] = 0

\* Without a semaphore everybody is an orphan; a stopped daemon has none, and
\* a daemon that was never restarted and has its semaphore has no orphans.
Generations ==
  /\ ~alive => \A s \in Session : pc[s] # "none" => orphan[s]
  /\ ~listening => ~alive
  /\ alive /\ ~restarted => \A s \in Session : ~orphan[s]

\* The places where interactive() has no open device.
FdClosed == LinkPlace \cup Releasing

\* The kernel's account of a lock that is only released by its holder.
Account ==
  /\ \A s \in Session : adj[s] \in {0, 1}
  /\ \A s, t \in Session : adj[s] = 1 /\ adj[t] = 1 => s = t
  /\ alive => semval \in {0, 1}
  /\ alive => \A s \in Session : adj[s] = 1 => semval = 0
  /\ \A s \in Session : OnLink(s) /\ ~orphan[s] => adj[s] = 1
  /\ \A s \in Session : pc[s] \in FdClosed /\ ~orphan[s] => ~fd[s]

OneOnLink == ~restarted => \A s, t \in Session : OnLink(s) /\ OnLink(t) => s = t

IInv == /\ TypeOK
        /\ SlotsClean
        /\ Generations
        /\ ~overReleased => Account /\ OneOnLink

-----------------------------------------------------------------------------
(***************************************************************************)
(* One lemma per kind of step.                                             *)
(***************************************************************************)
LEMMA InitEstablishes == Init => IInv
<1> SUFFICES ASSUME Init PROVE IInv
  OBVIOUS
<1>1. TypeOK
  <2>1. semval \in 0..SEMVMX /\ 0 \in (-SEMVMX - 1)..SEMVMX
    BY SemvmxAssumption DEF Init
  <2>2. "none" \in Place
    BY DEF Place
  <2> QED
    BY <2>1, <2>2, Zenon DEF Init, TypeOK
<1>2. SlotsClean /\ Generations
  BY DEF Init, SlotsClean, Generations
<1>3. Account /\ OneOnLink
  BY DEF Init, Account, OneOnLink, OnLink, LinkPlace, FdClosed, Releasing
<1> QED
  BY <1>1, <1>2, <1>3 DEF IInv

\* Moving on inside the program keeps the invariant if the session does not
\* come onto the link by it.
LEMMA GoesPreserves ==
  ASSUME IInv, NEW s \in Session, NEW from, NEW to \in Place,
         from # "none", to # "none", to \in LinkPlace => from \in LinkPlace,
         to \in FdClosed => from \in FdClosed,
         Goes(s, from, to)
  PROVE  IInv'
<1>1. TypeOK'
  BY DEF IInv, TypeOK, Goes, semaphore
<1>2. \A t \in Session : pc'[t] = "none" <=> pc[t] = "none"
  BY DEF IInv, TypeOK, Goes
<1>3. \A t \in Session : OnLink(t)' => OnLink(t)
  BY DEF IInv, TypeOK, Goes, OnLink
<1>4. SlotsClean' /\ Generations'
  BY <1>2 DEF IInv, SlotsClean, Generations, Goes, semaphore
<1>5. \A t \in Session : pc'[t] \in FdClosed => pc[t] \in FdClosed
  BY DEF IInv, TypeOK, Goes
<1>6. ASSUME ~overReleased' PROVE Account' /\ OneOnLink'
  BY <1>3, <1>5, <1>6 DEF IInv, Account, OneOnLink, Goes, semaphore
<1> QED
  BY <1>1, <1>4, <1>6 DEF IInv

LEMMA UndoneInRange ==
  ASSUME NEW v \in Int
  PROVE  Undone(v) \in 0..SEMVMX /\ (v \in 0..SEMVMX => Undone(v) = v)
BY SemvmxAssumption DEF Undone

\* The end of a process gives back exactly what it was charged for.
LEMMA EndPreserves ==
  ASSUME IInv, NEW s \in Session, pc[s] # "none", ProcessEnds(s)
  PROVE  IInv'
<1> USE SemvmxAssumption
<1> semval + adj[s] \in Int /\ semval \in Int
  BY DEF IInv, TypeOK
<1>1. TypeOK'
  BY UndoneInRange DEF IInv, TypeOK, ProcessEnds, Place
<1>2. SlotsClean' /\ Generations'
  BY DEF IInv, TypeOK, SlotsClean, Generations, ProcessEnds
<1>3. \A t \in Session : OnLink(t)' => OnLink(t) /\ t # s
  BY DEF IInv, TypeOK, ProcessEnds, OnLink, LinkPlace
<1>4. ASSUME ~overReleased' PROVE Account' /\ OneOnLink'
  <2>1. Account /\ OneOnLink
    BY <1>4 DEF IInv, ProcessEnds
  <2>2. OneOnLink'
    BY <1>3, <2>1 DEF OneOnLink, ProcessEnds
  <2>3. \A t \in Session : adj'[t] = IF t = s THEN 0 ELSE adj[t]
    BY DEF IInv, TypeOK, ProcessEnds
  <2>4. alive => semval' = IF orphan[s] THEN semval ELSE semval + adj[s]
    BY <2>1, UndoneInRange DEF Account, ProcessEnds
  <2>5. \A t \in Session : ~orphan'[t] => ~orphan[t] \/ t = s
    BY DEF IInv, TypeOK, ProcessEnds
  <2>6. (\A t \in Session : adj'[t] \in {0, 1})
        /\ (\A t, u \in Session : adj'[t] = 1 /\ adj'[u] = 1 => t = u)
    BY <2>1, <2>3 DEF Account
  <2>7. alive' => semval' \in {0, 1}
    BY <2>1, <2>4 DEF Account, ProcessEnds
  <2>8. alive' => \A t \in Session : adj'[t] = 1 => semval' = 0
    <3> SUFFICES ASSUME alive, NEW t \in Session, adj'[t] = 1 PROVE semval' = 0
      BY DEF ProcessEnds
    <3>1. t # s /\ adj[t] = 1 /\ adj[s] = 0 /\ semval = 0
      BY <2>1, <2>3 DEF Account
    <3> QED
      BY <3>1, <2>4
  <2>9. \A t \in Session : OnLink(t)' /\ ~orphan'[t] => adj'[t] = 1
    BY <2>1, <2>3, <2>5, <1>3 DEF Account
  <2>10. \A t \in Session : pc'[t] \in FdClosed /\ ~orphan'[t] => ~fd'[t]
    BY <2>1, <2>5 DEF IInv, TypeOK, Account, ProcessEnds
  <2> QED
    BY <2>2, <2>6, <2>7, <2>8, <2>9, <2>10 DEF Account
<1> QED
  BY <1>1, <1>2, <1>4 DEF IInv

\* Taking the lock charges the one session that comes onto the link.
LEMMA AcquirePreserves ==
  ASSUME IInv, NEW s \in Session, Acquire(s)
  PROVE  IInv'
<1> USE SemvmxAssumption DEF Acquire, vcontrol_semget
<1>a. pc[s] # "none" /\ AfterGet(s) \in Place \ {"none"}
  BY DEF Waiting, AfterGet, Place
<1>b. alive /\ ~orphan[s] /\ semval > 0
  BY <1>a DEF IInv, Generations
<1>c. \A t \in Session : adj'[t] = IF t = s THEN adj[s] + 1 ELSE adj[t]
  BY DEF IInv, TypeOK
<1>1. TypeOK'
  BY <1>a DEF IInv, TypeOK
<1>2. SlotsClean' /\ Generations'
  BY <1>a, <1>b DEF IInv, TypeOK, SlotsClean, Generations
<1>3. \A t \in Session : OnLink(t)' => OnLink(t) \/ t = s
  BY DEF IInv, TypeOK, OnLink
<1>4. ASSUME ~overReleased' PROVE Account' /\ OneOnLink'
  <2>1. Account /\ OneOnLink
    BY <1>4 DEF IInv
  <2>2. semval = 1 /\ semval' = 0
    BY <2>1, <1>b DEF Account
  <2>3. \A t \in Session : adj[t] = 0
    BY <2>1, <2>2, <1>b DEF Account
  <2>4. \A t \in Session : OnLink(t) => orphan[t]
    BY <2>1, <2>3 DEF Account
  <2>5. OneOnLink'
    BY <2>4, <1>b, <1>3 DEF IInv, Generations, OneOnLink
  <2>6. ~fd[s]
    BY <2>4, <1>b DEF OnLink
  <2>7. \A t \in Session : pc'[t] \in FdClosed => pc[t] \in FdClosed \/ t = s
    BY DEF IInv, TypeOK
  <2>8. Account'
    BY <1>3, <1>c, <2>1, <2>2, <2>3, <2>4, <2>6, <2>7 DEF Account
  <2> QED
    BY <2>5, <2>8
<1> QED
  BY <1>1, <1>2, <1>4 DEF IInv

\* A release by the process that is charged for the lock frees it; any other
\* release leaves the balanced behaviours.  The session has left the link.
LEMMA ReleasePreserves ==
  ASSUME IInv, NEW s \in Session, Release(s)
  PROVE  IInv'
<1> USE SemvmxAssumption DEF Release, vcontrol_semrelease
<1>a. /\ pc[s] # "none" /\ pc[s] \notin LinkPlace
      /\ AfterRelease(s) \in Place \ ({"none"} \cup LinkPlace)
  BY DEF Releasing, AfterRelease, Place, LinkPlace
<1>b. alive /\ ~orphan[s]
  BY <1>a DEF IInv, Generations
<1>c. \A t \in Session : adj'[t] = IF t = s THEN adj[s] - 1 ELSE adj[t]
  BY DEF IInv, TypeOK
<1>1. TypeOK'
  <2>1. semval' \in 0..SEMVMX /\ adj' \in [Session -> (-SEMVMX - 1)..SEMVMX]
    BY DEF IInv, TypeOK
  <2>2. pc' \in [Session -> Place]
    BY <1>a DEF IInv, TypeOK
  <2>3. overReleased' \in BOOLEAN
    <3>1. overReleased' = (overReleased \/ adj[s] <= 0)
      OBVIOUS
    <3> QED
      BY <3>1, Zenon DEF IInv, TypeOK
  <2> QED
    BY <2>1, <2>2, <2>3 DEF IInv, TypeOK
<1>2. SlotsClean' /\ Generations'
  BY <1>a, <1>b DEF IInv, TypeOK, SlotsClean, Generations
<1>3. \A t \in Session : OnLink(t)' => OnLink(t)
  BY <1>a DEF IInv, TypeOK, OnLink
<1>4. ASSUME ~overReleased' PROVE Account' /\ OneOnLink'
  <2>1. Account /\ OneOnLink /\ adj[s] = 1
    <3>1. overReleased' = (overReleased \/ adj[s] <= 0)
      OBVIOUS
    <3>2. ~overReleased /\ ~(adj[s] <= 0)
      BY <1>4, <3>1
    <3> QED
      BY <3>2 DEF IInv, Account
  <2>2. OneOnLink'
    BY <2>1, <1>3 DEF OneOnLink
  <2>3. \A t \in Session : adj'[t] = 0
    BY <2>1, <1>c DEF Account
  <2>4. semval' = 1
    BY <2>1, <1>b DEF Account
  <2>5. \A t \in Session : OnLink(t)' => orphan'[t]
    <3>1. \A t \in Session : OnLink(t) /\ ~orphan[t] => t = s
      BY <2>1 DEF Account
    <3>2. ~OnLink(s)'
      BY <2>1, <1>a, <1>b DEF IInv, TypeOK, Account, FdClosed, OnLink
    <3> QED
      BY <3>1, <3>2, <1>3
  <2>6. \A t \in Session : pc'[t] \in FdClosed /\ ~orphan'[t] => ~fd'[t]
    BY <2>5 DEF OnLink
  <2> QED
    BY <2>2, <2>3, <2>4, <2>5, <2>6 DEF Account
<1> QED
  BY <1>1, <1>2, <1>4 DEF IInv

\* Opening and closing the device, and accepting a connection, leave the
\* account alone: the session is on the link already, leaves it, or is new.
LEMMA OpenPreserves ==
  ASSUME IInv, NEW s \in Session, OpenDevice(s)
  PROVE  IInv'
<1>1. TypeOK'
  BY DEF IInv, TypeOK, OpenDevice, semaphore, Place
<1>2. SlotsClean' /\ Generations'
  BY DEF IInv, TypeOK, SlotsClean, Generations, OpenDevice, semaphore
<1>3. \A t \in Session : OnLink(t)' => OnLink(t)
  BY DEF IInv, TypeOK, OpenDevice, OnLink, LinkPlace
<1>4. \A t \in Session : pc'[t] \in FdClosed => pc[t] \in FdClosed /\ fd'[t] = fd[t]
  BY DEF IInv, TypeOK, OpenDevice, LinkPlace, FdClosed, Releasing
<1>5. ASSUME ~overReleased' PROVE Account' /\ OneOnLink'
  BY <1>3, <1>4, <1>5 DEF IInv, Account, OneOnLink, OpenDevice, semaphore
<1> QED
  BY <1>1, <1>2, <1>5 DEF IInv

LEMMA ClosePreserves ==
  ASSUME IInv, NEW s \in Session, CloseDevice(s)
  PROVE  IInv'
<1>1. TypeOK'
  BY DEF IInv, TypeOK, CloseDevice, semaphore, Place, Releasing
<1>2. SlotsClean' /\ Generations'
  BY DEF IInv, TypeOK, SlotsClean, Generations, CloseDevice, semaphore
<1>3. \A t \in Session : OnLink(t)' => OnLink(t)
  BY DEF IInv, TypeOK, CloseDevice, OnLink, LinkPlace
<1>4. \A t \in Session : pc'[t] \in FdClosed =>
        ~fd'[t] \/ (pc[t] \in FdClosed /\ fd'[t] = fd[t])
  BY DEF IInv, TypeOK, CloseDevice, LinkPlace
<1>5. ASSUME ~overReleased' PROVE Account' /\ OneOnLink'
  BY <1>3, <1>4, <1>5 DEF IInv, Account, OneOnLink, CloseDevice, semaphore
<1> QED
  BY <1>1, <1>2, <1>5 DEF IInv

LEMMA AcceptPreserves ==
  ASSUME IInv, NEW s \in Session, Accept(s)
  PROVE  IInv'
<1>1. TypeOK'
  BY DEF IInv, TypeOK, Accept, Place
<1>2. SlotsClean' /\ Generations'
  BY DEF IInv, TypeOK, SlotsClean, Generations, Accept
<1>3. \A t \in Session : OnLink(t)' => OnLink(t) /\ t # s
  BY DEF IInv, TypeOK, SlotsClean, Accept, OnLink, LinkPlace
<1>4. \A t \in Session : pc'[t] \in FdClosed => pc[t] \in FdClosed /\ t # s
  BY DEF IInv, TypeOK, Accept, LinkPlace, FdClosed, Releasing
<1>5. \A t \in Session : t # s => orphan'[t] = orphan[t]
  BY DEF IInv, TypeOK, Accept
<1>6. ASSUME ~overReleased' PROVE Account' /\ OneOnLink'
  BY <1>3, <1>4, <1>5, <1>6 DEF IInv, Account, OneOnLink, Accept
<1> QED
  BY <1>1, <1>2, <1>6 DEF IInv

\* Removing the semaphore turns every process into an orphan.  Whoever was
\* alone on the link stays alone on it: nobody can come onto it any more.
LEMMA TermDaemonPreserves ==
  ASSUME IInv, TermDaemon
  PROVE  IInv'
<1> USE SemvmxAssumption DEF TermDaemon, vcontrol_semfree
<1>1. TypeOK'
  <2>1. orphan' \in [Session -> BOOLEAN]
    OBVIOUS
  <2>2. semval' \in 0..SEMVMX /\ adj' \in [Session -> (-SEMVMX - 1)..SEMVMX]
    OBVIOUS
  <2>3. alive' \in BOOLEAN /\ listening' \in BOOLEAN
    OBVIOUS
  <2> QED
    BY <2>1, <2>2, <2>3 DEF IInv, TypeOK
<1>2. SlotsClean' /\ Generations'
  BY DEF IInv, TypeOK, SlotsClean, Generations
<1>3. \A t \in Session : OnLink(t)' => OnLink(t)
  BY DEF OnLink
<1>4. \A t \in Session : ~orphan'[t] => ~fd'[t]
  BY DEF IInv, SlotsClean
<1>5. \A t \in Session : ~orphan'[t] => ~OnLink(t)'
  BY <1>4 DEF OnLink, LinkPlace
<1>6. ASSUME ~overReleased' PROVE Account' /\ OneOnLink'
  BY <1>3, <1>4, <1>5, <1>6 DEF IInv, Account, OneOnLink
<1> QED
  BY <1>1, <1>2, <1>6 DEF IInv

LEMMA TermSessionPreserves ==
  ASSUME IInv, NEW s \in Session, TermSession(s)
  PROVE  IInv'
<1>1. CASE orphan[s]
  BY <1>1, EndPreserves DEF TermSession
<1>2. CASE ~orphan[s]
  <2> USE <1>2, SemvmxAssumption DEF TermSession, vcontrol_semfree
  <2>1. TypeOK'
    <3>1. orphan' \in [Session -> BOOLEAN]
      OBVIOUS
    <3>2. semval' \in 0..SEMVMX /\ adj' \in [Session -> (-SEMVMX - 1)..SEMVMX]
      OBVIOUS
    <3>3. alive' \in BOOLEAN /\ fd' \in [Session -> BOOLEAN]
      BY DEF IInv, TypeOK
    <3>4. pc' \in [Session -> Place]
      BY DEF IInv, TypeOK, Place
    <3> QED
      BY <3>1, <3>2, <3>3, <3>4 DEF IInv, TypeOK
  <2>2. SlotsClean' /\ Generations'
    BY DEF IInv, TypeOK, SlotsClean, Generations
  <2>3. \A t \in Session : OnLink(t)' => OnLink(t)
    BY DEF IInv, TypeOK, OnLink, LinkPlace
  <2>4. \A t \in Session : ~orphan'[t] => ~fd'[t]
    BY ZenonT(30) DEF IInv, TypeOK, SlotsClean
  <2>5. \A t \in Session : ~orphan'[t] => ~OnLink(t)'
    BY <2>4 DEF OnLink, LinkPlace
  <2>6. ASSUME ~overReleased' PROVE Account' /\ OneOnLink'
    BY <2>3, <2>4, <2>5, <2>6 DEF IInv, Account, OneOnLink
  <2> QED
    BY <2>1, <2>2, <2>6 DEF IInv
<1> QED
  BY <1>1, <1>2

\* A new daemon starts with a fresh account.
LEMMA RestartPreserves ==
  ASSUME IInv, Restart
  PROVE  IInv'
<1> USE SemvmxAssumption DEF Restart
<1>1. TypeOK'
  <2>1. semval' \in 0..SEMVMX
    OBVIOUS
  <2>2. UNCHANGED <<pc, fd, adj, orphan>> /\ listening' /\ alive' /\ restarted'
    OBVIOUS
  <2>3. overReleased' \in BOOLEAN /\ saturated' \in BOOLEAN
    OBVIOUS
  <2> QED
    BY <2>1, <2>2, <2>3, Zenon DEF IInv, TypeOK
<1>2. SlotsClean' /\ Generations'
  BY DEF IInv, TypeOK, SlotsClean, Generations
<1>3. \A t \in Session : adj'[t] = 0
  BY DEF IInv, SlotsClean, Generations
<1>4. \A t \in Session : ~orphan'[t] => ~fd'[t]
  BY DEF IInv, SlotsClean, Generations
<1>5. \A t \in Session : ~orphan'[t] => ~OnLink(t)'
  BY <1>4 DEF IInv, SlotsClean, Generations, OnLink, LinkPlace
<1>6. Account' /\ OneOnLink'
  BY <1>3, <1>4, <1>5 DEF Account, OneOnLink
<1> QED
  BY <1>1, <1>2, <1>6 DEF IInv

-----------------------------------------------------------------------------
LEMMA RequestPreserves ==
  ASSUME IInv, NEW s \in Session, Request(s)
  PROVE  IInv'
<1> USE DEF Place, LinkPlace, FdClosed, Waiting, Releasing
<1>1. ASSUME NEW to \in Place \ (FdClosed \cup {"none"}),
             NEW from, from # "none", Goes(s, from, to)
      PROVE  IInv'
  BY <1>1, GoesPreserves
<1>2. CASE Command(s)
  BY <1>1, <1>2 DEF Command
<1>3. CASE OtherRequest(s) \/ CloseRequest(s) \/ Quit(s) \/ EndOfFile(s)
  BY <1>1, <1>3 DEF OtherRequest, CloseRequest, Quit, EndOfFile
<1>4. CASE RawRequest(s) \/ RawEnd(s) \/ RawEof(s)
  BY <1>1, <1>4 DEF RawRequest, RawEnd, RawEof
<1> QED
  BY <1>2, <1>3, <1>4 DEF Request

LEMMA ProceedPreserves ==
  ASSUME IInv, NEW s \in Session, Proceed(s)
  PROVE  IInv'
<1> USE DEF Place, LinkPlace, FdClosed, Waiting, Releasing
<1>1. ASSUME NEW to \in Place \ (FdClosed \cup {"none"}),
             NEW from, from # "none", Goes(s, from, to)
      PROVE  IInv'
  BY <1>1, GoesPreserves
<1>2. CASE \/ Executed(s) \/ PrecmdFails(s) \/ Reply(s) \/ ReplyFails(s)
           \/ OpenReply(s) \/ OpenReplyFails(s)
  BY <1>1, <1>2 DEF Executed, PrecmdFails, Reply, ReplyFails, OpenReply, OpenReplyFails
<1>3. CASE \/ OpenFails(s) \/ RawOpens(s) \/ RawOpenFails(s)
           \/ RawExecuted(s) \/ RawCloses(s)
  BY <1>3, GoesPreserves
     DEF OpenFails, RawOpens, RawOpenFails, RawExecuted, RawCloses
<1>4. CASE TtyFails(s) \/ LostSync(s) \/ SemopFails(s) \/ Exits(s)
  <2>1. pc[s] # "none" /\ ProcessEnds(s)
    BY <1>4 DEF TtyFails, LostSync, SemopFails, Exits
  <2> QED
    BY <2>1, EndPreserves
<1>5. CASE OpenDevice(s) \/ CloseDevice(s) \/ Release(s)
  BY <1>5, OpenPreserves, ClosePreserves, ReleasePreserves
<1> QED
  BY <1>2, <1>3, <1>4, <1>5 DEF Proceed

LEMMA SignalPreserves ==
  ASSUME IInv, NEW s \in Session, Signal(s)
  PROVE  IInv'
<1>1. CASE SemopInterrupted(s) \/ Killed(s)
  <2>1. pc[s] # "none" /\ ProcessEnds(s)
    BY <1>1 DEF SemopInterrupted, Killed, Waiting
  <2> QED
    BY <2>1, EndPreserves
<1>2. CASE TermSession(s)
  BY <1>2, TermSessionPreserves
<1> QED
  BY <1>1, <1>2 DEF Signal

LEMMA NextPreserves == IInv /\ [Next]_vars => IInv'
<1> SUFFICES ASSUME IInv, [Next]_vars PROVE IInv'
  OBVIOUS
<1>1. ASSUME NEW s \in Session, \/ Accept(s) \/ Request(s) \/ Acquire(s)
                                \/ Proceed(s) \/ Signal(s)
      PROVE  IInv'
  BY <1>1, AcceptPreserves, RequestPreserves, AcquirePreserves,
     ProceedPreserves, SignalPreserves
<1>2. CASE TermDaemon \/ Restart
  BY <1>2, TermDaemonPreserves, RestartPreserves
<1>3. CASE UNCHANGED vars
  BY <1>3 DEF vars, IInv, TypeOK, SlotsClean, Generations, Account, OneOnLink, OnLink
<1> QED
  BY <1>1, <1>2, <1>3 DEF Next

-----------------------------------------------------------------------------
(***************************************************************************)
(* Theorems                                                                *)
(***************************************************************************)
\* The inductive invariant holds throughout.
THEOREM InvariantHolds == Spec => []IInv
BY InitEstablishes, NextPreserves, PTL DEF Spec

\* Every variable keeps its type; in particular the value of the semaphore
\* stays in the range of System V and every adjustment can be applied.
THEOREM TypeCorrect == Spec => []TypeOK
<1>1. IInv => TypeOK
  BY DEF IInv
<1> QED
  BY <1>1, InvariantHolds, PTL

\* The link belongs to one session of one daemon from open to close, for any
\* number of sessions, as long as no process releases a lock it does not hold.
THEOREM LinkIsExclusive == Spec => []ExclusiveUnlessOverReleased
<1>1. IInv => ExclusiveUnlessOverReleased
  <2> SUFFICES ASSUME IInv, ~overReleased,
                      NEW s \in Session, NEW t \in Session, OnLink(s), OnLink(t)
               PROVE  s = t \/ (restarted /\ (orphan[s] \/ orphan[t]))
    BY DEF ExclusiveUnlessOverReleased
  <2>1. CASE ~restarted
    BY <2>1 DEF IInv, OneOnLink
  <2>2. CASE ~orphan[s] /\ ~orphan[t]
    BY <2>2 DEF IInv, Account
  <2>3. CASE restarted /\ (orphan[s] \/ orphan[t])
    BY <2>3
  <2> QED
    BY <2>1, <2>2, <2>3
<1> QED
  BY <1>1, InvariantHolds, PTL

\* Whoever is on the link is charged for the lock, so that the kernel frees it
\* if the process dies there.
THEOREM LinkCharged == Spec => []LinkIsCharged
<1>1. IInv => LinkIsCharged
  BY DEF IInv, Account, LinkIsCharged
<1> QED
  BY <1>1, InvariantHolds, PTL

-----------------------------------------------------------------------------
(***************************************************************************)
(* The lock is never lost.  Exclusion does not enter: the property is      *)
(* about every history of releases, balanced or not.  What is invariant is *)
(* the sum of the semaphore's value and all adjustments, at least 1 unless *)
(* an adjustment was cut off above.  The sum is counted: an adjustment of  *)
(* n > 0 is n pairs of its process in Units(adj), one of -n is n pairs in  *)
(* Units of the adjustments with their signs changed.                      *)
(***************************************************************************)
Adjustments == [Session -> (-SEMVMX - 1)..(SEMVMX + 1)]

Units(a)   == {p \in Session \X (1..(SEMVMX + 1)) : p[2] <= a[p[1]]}
Negative(a) == [s \in Session |-> -a[s]]

Credit == Cardinality(Units(adj))
Debt   == Cardinality(Units(Negative(adj)))

Balanced == alive /\ ~saturated => semval + Credit >= Debt + 1

BInv == IInv /\ Balanced

LEMMA UnitsFinite ==
  ASSUME NEW a
  PROVE  IsFiniteSet(Units(a)) /\ Cardinality(Units(a)) \in Nat
<1>1. IsFiniteSet(1..(SEMVMX + 1))
  BY FS_Interval, SemvmxAssumption
<1>2. IsFiniteSet(Session \X (1..(SEMVMX + 1)))
  BY <1>1, SessionAssumption, FS_Product
<1>3. IsFiniteSet(Units(a))
  BY <1>2, FS_Subset DEF Units
<1> QED
  BY <1>3, FS_CardinalityType

LEMMA CountTo ==
  ASSUME NEW n \in Int
  PROVE  IsFiniteSet(1..n) /\ Cardinality(1..n) = IF n > 0 THEN n ELSE 0
<1>1. /\ IsFiniteSet(1..n)
      /\ Cardinality(1..n) = IF 1 > n THEN 0 ELSE n - 1 + 1
  BY FS_Interval, 1 \in Int
<1> QED
  BY <1>1

\* The units of one process are as many as its adjustment says.
LEMMA UnitsOfOne ==
  ASSUME NEW a \in Adjustments, NEW s \in Session
  PROVE  LET own == {p \in Units(a) : p[1] = s} IN
         /\ IsFiniteSet(own)
         /\ Cardinality(own) = IF a[s] > 0 THEN a[s] ELSE 0
<1> DEFINE own == {p \in Units(a) : p[1] = s}
<1>0. a[s] \in (-SEMVMX - 1)..(SEMVMX + 1) /\ a[s] \in Int /\ SEMVMX \in Nat
  BY SemvmxAssumption DEF Adjustments
<1>1. own = {s} \X (1..a[s])
  <2>1. ASSUME NEW p \in own PROVE p \in {s} \X (1..a[s])
    <3>1. p \in Session \X (1..(SEMVMX + 1)) /\ p[2] <= a[p[1]] /\ p[1] = s
      BY DEF Units
    <3>2. p = <<p[1], p[2]>> /\ p[2] \in 1..(SEMVMX + 1)
      BY <3>1
    <3> QED
      BY <1>0, <3>1, <3>2
  <2>2. ASSUME NEW i \in 1..a[s] PROVE <<s, i>> \in own
    <3>1. i \in 1..(SEMVMX + 1) /\ i <= a[s]
      BY <1>0
    <3> QED
      BY <3>1 DEF Units
  <2>3. ASSUME NEW p \in {s} \X (1..a[s]) PROVE p \in own
    <3>1. PICK i \in 1..a[s] : p = <<s, i>>
      OBVIOUS
    <3> QED
      BY <2>2, <3>1
  <2> QED
    BY <2>1, <2>3
<1>2. IsFiniteSet({s}) /\ Cardinality({s}) = 1
  BY FS_Singleton
<1>3. IsFiniteSet(1..a[s]) /\ Cardinality(1..a[s]) = IF a[s] > 0 THEN a[s] ELSE 0
  BY <1>0, CountTo
<1>4. IsFiniteSet({s} \X (1..a[s]))
      /\ Cardinality({s} \X (1..a[s])) = Cardinality({s}) * Cardinality(1..a[s])
  BY <1>2, <1>3, FS_Product
<1>5. Cardinality({s} \X (1..a[s])) = 1 * Cardinality(1..a[s])
  BY <1>2, <1>4
<1>6. Cardinality({s} \X (1..a[s])) = IF a[s] > 0 THEN a[s] ELSE 0
  BY <1>0, <1>3, <1>5
<1> QED
  BY <1>1, <1>4, <1>6

\* The units of all but one.
LEMMA UnitsOfOthers ==
  ASSUME NEW a \in Adjustments, NEW s \in Session
  PROVE  LET others == {p \in Units(a) : p[1] # s} IN
         /\ Cardinality(others) \in Nat
         /\ Cardinality(Units(a)) = Cardinality(others) + IF a[s] > 0 THEN a[s] ELSE 0
<1> DEFINE own    == {p \in Units(a) : p[1] = s}
           others == {p \in Units(a) : p[1] # s}
<1>1. IsFiniteSet(own) /\ Cardinality(own) = IF a[s] > 0 THEN a[s] ELSE 0
  BY UnitsOfOne
<1>2. IsFiniteSet(others) /\ Cardinality(others) \in Nat
  BY UnitsFinite, FS_Subset, FS_CardinalityType
<1>3. Units(a) = others \cup own /\ others \cap own = {}
  OBVIOUS
<1>4. Cardinality(others \cup own)
        = Cardinality(others) + Cardinality(own) - Cardinality(others \cap own)
  BY <1>1, <1>2, FS_Union
<1>5. Cardinality({}) = 0 /\ Cardinality(own) \in Nat
  BY <1>1, FS_EmptySet, FS_CardinalityType
<1>6. Cardinality(Units(a)) = Cardinality(others) + Cardinality(own) - 0
  BY <1>3, <1>4, <1>5
<1>7. Cardinality(Units(a)) = Cardinality(others) + Cardinality(own)
  BY <1>2, <1>5, <1>6
<1> QED
  BY <1>1, <1>2, <1>7

\* Changing one adjustment changes their sum by as much.
LEMMA SumChanges ==
  ASSUME NEW a \in Adjustments, NEW b \in Adjustments, NEW s \in Session,
         \A t \in Session : t # s => b[t] = a[t]
  PROVE  Cardinality(Units(b)) - Cardinality(Units(Negative(b)))
           = Cardinality(Units(a)) - Cardinality(Units(Negative(a))) + b[s] - a[s]
<1>1. Negative(a) \in Adjustments /\ Negative(b) \in Adjustments
  BY SemvmxAssumption DEF Adjustments, Negative
<1>2. {p \in Units(a) : p[1] # s} = {p \in Units(b) : p[1] # s}
  BY DEF Units
<1>3. {p \in Units(Negative(a)) : p[1] # s} = {p \in Units(Negative(b)) : p[1] # s}
  BY DEF Units, Negative
<1>4. a[s] \in Int /\ b[s] \in Int /\ Negative(a)[s] = -a[s] /\ Negative(b)[s] = -b[s]
  BY SemvmxAssumption DEF Adjustments, Negative
<1>5. /\ Cardinality({p \in Units(a) : p[1] # s}) \in Nat
      /\ Cardinality(Units(a))
           = Cardinality({p \in Units(a) : p[1] # s}) + IF a[s] > 0 THEN a[s] ELSE 0
  BY UnitsOfOthers
<1>6. Cardinality(Units(b))
           = Cardinality({p \in Units(a) : p[1] # s}) + IF b[s] > 0 THEN b[s] ELSE 0
  BY <1>2, UnitsOfOthers
<1>7. /\ Cardinality({p \in Units(Negative(a)) : p[1] # s}) \in Nat
      /\ Cardinality(Units(Negative(a)))
           = Cardinality({p \in Units(Negative(a)) : p[1] # s}) + IF -a[s] > 0 THEN -a[s] ELSE 0
  BY <1>1, <1>4, UnitsOfOthers
<1>8. Cardinality(Units(Negative(b)))
           = Cardinality({p \in Units(Negative(a)) : p[1] # s}) + IF -b[s] > 0 THEN -b[s] ELSE 0
  BY <1>1, <1>3, <1>4, UnitsOfOthers
<1> QED
  BY <1>4, <1>5, <1>6, <1>7, <1>8

\* Without adjustments there is no unit.
LEMMA NoUnits ==
  ASSUME NEW a \in Adjustments, \A s \in Session : a[s] <= 0
  PROVE  Cardinality(Units(a)) = 0
<1>1. Units(a) = {}
  <2> SUFFICES ASSUME NEW p \in Units(a) PROVE FALSE
    OBVIOUS
  <2>1. p[1] \in Session /\ p[2] \in 1..(SEMVMX + 1) /\ p[2] <= a[p[1]]
    BY DEF Units
  <2>2. a[p[1]] \in Int /\ a[p[1]] <= 0
    BY <2>1, SemvmxAssumption DEF Adjustments
  <2> QED
    BY <2>1, <2>2, SemvmxAssumption
<1> QED
  BY <1>1, FS_EmptySet

LEMMA AdjustmentsTyped ==
  ASSUME IInv
  PROVE  adj \in Adjustments /\ Negative(adj) \in Adjustments
<1>1. adj \in Adjustments
  BY SemvmxAssumption DEF IInv, TypeOK, Adjustments
<1> QED
  BY <1>1, SemvmxAssumption DEF Adjustments, Negative

\* A step of one process that moves its adjustment against the value, or, where the
\* value is kept from falling below 0, by no more than the value.
LEMMA BalanceKept ==
  ASSUME IInv, IInv', Balanced, NEW s \in Session, alive' = alive, ~saturated' => ~saturated,
         \A t \in Session : t # s => adj'[t] = adj[t],
         alive /\ ~saturated' => semval' + adj'[s] >= semval + adj[s]
  PROVE  Balanced'
<1>1. adj \in Adjustments /\ adj' \in Adjustments /\ semval \in Int /\ semval' \in Int
  BY SemvmxAssumption DEF IInv, TypeOK, Adjustments
<1>2. Credit' - Debt' = Credit - Debt + adj'[s] - adj[s]
  BY <1>1, SumChanges DEF Credit, Debt
<1>3. Credit \in Nat /\ Credit' \in Nat /\ Debt \in Nat /\ Debt' \in Nat
  BY UnitsFinite DEF Credit, Debt
<1>4. adj[s] \in Int /\ adj'[s] \in Int
  BY <1>1, SemvmxAssumption DEF Adjustments
<1>5. ASSUME alive', ~saturated' PROVE semval' + Credit' >= Debt' + 1
  <2>1. semval + Credit >= Debt + 1 /\ semval' + adj'[s] >= semval + adj[s]
    BY <1>5 DEF Balanced
  <2>2. PICK v \in Int, w \in Int, x \in Int, y \in Int :
               v = semval /\ w = semval' /\ x = adj[s] /\ y = adj'[s]
    BY <1>1, <1>4
  <2>3. PICK c \in Nat, d \in Nat, e \in Nat, f \in Nat :
               c = Credit /\ d = Debt /\ e = Credit' /\ f = Debt'
    BY <1>3
  <2>4. v + c >= d + 1 /\ w + y >= v + x /\ e - f = c - d + y - x
    BY <1>2, <2>1, <2>2, <2>3
  <2>5. w + e >= f + 1
    BY <2>4
  <2> QED
    BY <2>2, <2>3, <2>5
<1> QED
  BY <1>5 DEF Balanced

LEMMA BalanceIdle ==
  ASSUME Balanced, alive' => alive, ~saturated' => ~saturated, adj' = adj, semval' = semval
  PROVE  Balanced'
BY DEF Balanced, Credit, Debt

\* The end of a process adds its adjustment to the value, which may be kept from
\* falling, and is only kept from rising in a saturated history.
LEMMA BalanceEnd ==
  ASSUME IInv, IInv', Balanced, NEW s \in Session, ProcessEnds(s)
  PROVE  Balanced'
<1> USE SemvmxAssumption
<1>1. /\ semval \in 0..SEMVMX /\ adj[s] \in (-SEMVMX - 1)..SEMVMX
      /\ adj'[s] = 0 /\ \A t \in Session : t # s => adj'[t] = adj[t]
  BY DEF IInv, TypeOK, ProcessEnds
<1>2. orphan[s] => adj[s] = 0
  BY DEF IInv, SlotsClean
<1>3. saturated' = (saturated \/ (~orphan[s] /\ semval + adj[s] > SEMVMX))
  BY DEF ProcessEnds
<1>4. ~saturated' => ~saturated /\ (orphan[s] \/ semval + adj[s] <= SEMVMX)
  <2>1. ~saturated' => ~saturated /\ (orphan[s] \/ ~(semval + adj[s] > SEMVMX))
    BY <1>3, Zenon
  <2> QED
    BY <1>1, <2>1
<1>5. semval' = IF orphan[s] THEN semval ELSE Undone(semval + adj[s])
  BY DEF ProcessEnds
<1>6. ~saturated' => semval' + adj'[s] >= semval + adj[s]
  BY <1>1, <1>2, <1>4, <1>5 DEF Undone
<1>7. alive' = alive
  BY DEF ProcessEnds
<1> QED
  BY <1>1, <1>4, <1>6, <1>7, BalanceKept

LEMMA BalanceProceeds ==
  ASSUME IInv, IInv', Balanced, NEW s \in Session, Proceed(s)
  PROVE  Balanced'
<1>1. ASSUME NEW from, NEW to, Goes(s, from, to) PROVE Balanced'
  BY <1>1, BalanceIdle DEF Goes, semaphore
<1>2. CASE \/ OpenFails(s) \/ Executed(s) \/ PrecmdFails(s) \/ Reply(s) \/ ReplyFails(s)
           \/ OpenReply(s) \/ OpenReplyFails(s)
  BY <1>1, <1>2 DEF OpenFails, Executed, PrecmdFails, Reply, ReplyFails, OpenReply,
                    OpenReplyFails
<1>3. CASE RawOpens(s) \/ RawOpenFails(s) \/ RawExecuted(s) \/ RawCloses(s)
  BY <1>1, <1>3 DEF RawOpens, RawOpenFails, RawExecuted, RawCloses
<1>4. CASE OpenDevice(s) \/ CloseDevice(s)
  BY <1>4, BalanceIdle DEF OpenDevice, CloseDevice, semaphore
<1>5. CASE TtyFails(s) \/ LostSync(s) \/ SemopFails(s) \/ Exits(s)
  BY <1>5, BalanceEnd DEF TtyFails, LostSync, SemopFails, Exits
<1>6. CASE Release(s)
  <2>1. /\ semval' = semval + 1 /\ alive' = alive /\ saturated' = saturated
        /\ adj'[s] = adj[s] - 1 /\ \A t \in Session : t # s => adj'[t] = adj[t]
        /\ adj[s] \in Int /\ semval \in Int
    BY <1>6, SemvmxAssumption DEF IInv, TypeOK, Release, vcontrol_semrelease
  <2> QED
    BY <2>1, BalanceKept
<1> QED
  BY <1>2, <1>3, <1>4, <1>5, <1>6 DEF Proceed

LEMMA BalanceNext == BInv /\ [Next]_vars => BInv'
<1> SUFFICES ASSUME IInv, Balanced, [Next]_vars PROVE Balanced'
  BY NextPreserves DEF BInv
<1>0. IInv'
  BY NextPreserves
<1>1. ASSUME NEW s \in Session, Accept(s) PROVE Balanced'
  BY <1>1, BalanceIdle DEF Accept
<1>2. ASSUME NEW s \in Session, Request(s) PROVE Balanced'
  BY <1>2, BalanceIdle DEF Request, Command, OtherRequest, CloseRequest, Quit, EndOfFile,
                           RawRequest, RawEnd, RawEof, Goes, semaphore
<1>3. ASSUME NEW s \in Session, Acquire(s) PROVE Balanced'
  <2>1. /\ semval' = semval - 1 /\ alive' = alive /\ saturated' = saturated
        /\ adj'[s] = adj[s] + 1 /\ \A t \in Session : t # s => adj'[t] = adj[t]
        /\ adj[s] \in Int /\ semval \in Int
    BY <1>3, SemvmxAssumption DEF IInv, TypeOK, Acquire, vcontrol_semget
  <2> QED
    BY <1>0, <2>1, BalanceKept
<1>4. ASSUME NEW s \in Session, Proceed(s) PROVE Balanced'
  BY <1>0, <1>4, BalanceProceeds
<1>5. ASSUME NEW s \in Session, Signal(s) PROVE Balanced'
  <2>1. CASE SemopInterrupted(s) \/ Killed(s) \/ (TermSession(s) /\ orphan[s])
    BY <1>0, <2>1, BalanceEnd DEF SemopInterrupted, Killed, TermSession
  <2>2. CASE TermSession(s) /\ ~orphan[s]
    BY <2>2 DEF TermSession, vcontrol_semfree, Balanced
  <2> QED
    BY <1>5, <2>1, <2>2 DEF Signal
<1>6. CASE TermDaemon
  BY <1>6 DEF TermDaemon, vcontrol_semfree, Balanced
<1>7. CASE Restart
  <2>1. adj' = adj /\ semval' = 1 /\ \A s \in Session : adj[s] = 0
    BY <1>7 DEF IInv, Generations, SlotsClean, Restart
  <2>2. \A s \in Session : Negative(adj)[s] <= 0
    BY <2>1 DEF Negative
  <2>3. Debt = 0 /\ Credit \in Nat
    BY <2>2, AdjustmentsTyped, NoUnits, UnitsFinite DEF Debt, Credit
  <2>4. Debt' = Debt /\ Credit' = Credit
    BY <2>1 DEF Debt, Credit
  <2> QED
    BY <2>1, <2>3, <2>4 DEF Balanced
<1>8. CASE UNCHANGED vars
  BY <1>8, BalanceIdle DEF vars
<1> QED
  BY <1>0, <1>1, <1>2, <1>3, <1>4, <1>5, <1>6, <1>7, <1>8 DEF Next

\* The lock is never lost: whatever was released too often and however processes
\* ended, a living semaphore to which no process has net acquisitions can be taken.
THEOREM LockIsNeverLost == Spec => []LockNeverLost
<1>1. Init => BInv
  <2> SUFFICES ASSUME Init PROVE BInv
    OBVIOUS
  <2>1. \A s \in Session : Negative(adj)[s] <= 0
    BY DEF Init, Negative
  <2>2. Debt = 0 /\ Credit \in Nat /\ semval = 1
    BY <2>1, InitEstablishes, AdjustmentsTyped, NoUnits, UnitsFinite DEF Debt, Credit, Init
  <2>3. Balanced
    BY <2>2 DEF Balanced
  <2> QED
    BY <2>3, InitEstablishes DEF BInv
<1>2. BInv => LockNeverLost
  <2> SUFFICES ASSUME BInv, alive, ~saturated, \A s \in Session : adj[s] <= 0
               PROVE  semval >= 1
    BY DEF LockNeverLost
  <2>1. Credit = 0 /\ Debt \in Nat /\ semval \in Int
    BY AdjustmentsTyped, NoUnits, UnitsFinite, SemvmxAssumption DEF Credit, Debt, BInv, IInv, TypeOK
  <2> QED
    BY <2>1 DEF BInv, Balanced
<1> QED
  BY <1>1, <1>2, BalanceNext, PTL DEF Spec

-----------------------------------------------------------------------------
(***************************************************************************)
(* Implementation of LinkLock.  Only the acquisition of the lock brings a  *)
(* session onto the link, and only when nobody is on it; every other step  *)
(* of one daemon keeps or shrinks the set of users.                        *)
(***************************************************************************)
Users == {s \in Session : OnLink(s)}

LEMMA GoesShrinks ==
  ASSUME TypeOK, NEW s \in Session, NEW from, NEW to,
         to \in LinkPlace => from \in LinkPlace, Goes(s, from, to)
  PROVE  \A t \in Session : OnLink(t)' => OnLink(t)
BY DEF TypeOK, Goes, OnLink

LEMMA EndShrinks ==
  ASSUME TypeOK, NEW s \in Session, ProcessEnds(s)
  PROVE  \A t \in Session : OnLink(t)' => OnLink(t)
BY DEF TypeOK, ProcessEnds, OnLink, LinkPlace

LEMMA RequestShrinks ==
  ASSUME TypeOK, NEW s \in Session, Request(s)
  PROVE  \A t \in Session : OnLink(t)' => OnLink(t)
<1>1. ASSUME NEW from, NEW to, to \notin LinkPlace, Goes(s, from, to)
      PROVE  \A t \in Session : OnLink(t)' => OnLink(t)
  BY <1>1, GoesShrinks
<1>2. CASE Command(s) \/ OtherRequest(s) \/ CloseRequest(s) \/ Quit(s)
  BY <1>1, <1>2 DEF Command, OtherRequest, CloseRequest, Quit, LinkPlace
<1>3. CASE EndOfFile(s) \/ RawRequest(s) \/ RawEnd(s) \/ RawEof(s)
  BY <1>1, <1>3 DEF EndOfFile, RawRequest, RawEnd, RawEof, LinkPlace
<1> QED
  BY <1>2, <1>3 DEF Request

LEMMA ProceedShrinks ==
  ASSUME TypeOK, NEW s \in Session, Proceed(s)
  PROVE  \A t \in Session : OnLink(t)' => OnLink(t)
<1>1. ASSUME NEW from, NEW to, to \notin LinkPlace \/ from \in LinkPlace,
             Goes(s, from, to)
      PROVE  \A t \in Session : OnLink(t)' => OnLink(t)
  BY <1>1, GoesShrinks
<1>2. CASE \/ Executed(s) \/ PrecmdFails(s) \/ Reply(s) \/ ReplyFails(s)
           \/ OpenReply(s) \/ OpenReplyFails(s)
  BY <1>1, <1>2 DEF Executed, PrecmdFails, Reply, ReplyFails, OpenReply,
                    OpenReplyFails, LinkPlace
<1>3. CASE \/ OpenFails(s) \/ RawOpens(s) \/ RawOpenFails(s)
           \/ RawExecuted(s) \/ RawCloses(s)
  BY <1>1, <1>3 DEF OpenFails, RawOpens, RawOpenFails, RawExecuted, RawCloses,
                    LinkPlace
<1>4. CASE TtyFails(s) \/ LostSync(s) \/ SemopFails(s) \/ Exits(s)
  BY <1>4, EndShrinks DEF TtyFails, LostSync, SemopFails, Exits
<1>5. CASE OpenDevice(s)
  BY <1>5 DEF TypeOK, OpenDevice, OnLink, LinkPlace
<1>6. CASE CloseDevice(s)
  BY <1>6 DEF TypeOK, CloseDevice, OnLink, LinkPlace
<1>7. CASE Release(s)
  BY <1>7 DEF TypeOK, Release, vcontrol_semrelease, AfterRelease, OnLink, LinkPlace
<1> QED
  BY <1>2, <1>3, <1>4, <1>5, <1>6, <1>7 DEF Proceed

LEMMA OthersShrink ==
  ASSUME IInv, NEW s \in Session, Accept(s) \/ Signal(s) \/ TermDaemon
  PROVE  \A t \in Session : OnLink(t)' => OnLink(t)
<1>1. CASE Accept(s)
  BY <1>1 DEF IInv, TypeOK, Accept, OnLink, LinkPlace
<1>2. CASE SemopInterrupted(s) \/ Killed(s)
  BY <1>2, EndShrinks DEF IInv, SemopInterrupted, Killed
<1>3. CASE TermSession(s) /\ orphan[s]
  BY <1>3, EndShrinks DEF IInv, TermSession
<1>4. CASE TermSession(s) /\ ~orphan[s]
  BY <1>4 DEF IInv, TypeOK, TermSession, OnLink, LinkPlace
<1>5. CASE TermDaemon
  BY <1>5 DEF TermDaemon, OnLink
<1> QED
  BY <1>1, <1>2, <1>3, <1>4, <1>5 DEF Signal

LEMMA AcquireEnters ==
  ASSUME IInv, NEW s \in Session, Acquire(s), ~overReleased, ~restarted
  PROVE  Users = {} /\ Users' \subseteq {s}
<1> USE DEF Acquire, vcontrol_semget
<1>1. alive /\ \A t \in Session : ~orphan[t]
  BY DEF IInv, Generations, Waiting
<1>2. \A t \in Session : adj[t] = 0
  BY <1>1 DEF IInv, Account
<1>3. \A t \in Session : ~OnLink(t)
  BY <1>1, <1>2 DEF IInv, Account
<1>4. \A t \in Session : OnLink(t)' => OnLink(t) \/ t = s
  BY DEF IInv, TypeOK, OnLink
<1> QED
  BY <1>3, <1>4 DEF Users

\* Once the promise is void it stays so: only a restart forgets about releases.
Voided == overReleased \/ restarted

LEMMA VoidedForGood ==
  ASSUME Voided, [Next]_vars
  PROVE  Voided'
<1>1. CASE Restart
  BY <1>1 DEF Restart, Voided
<1>2. ASSUME NEW s \in Session, NEW from, NEW to, Goes(s, from, to) PROVE Voided'
  BY <1>2 DEF Goes, semaphore, Voided
<1>3. ASSUME NEW s \in Session, ProcessEnds(s) PROVE Voided'
  BY <1>3 DEF ProcessEnds, Voided
<1>4. ASSUME NEW s \in Session, Request(s) PROVE Voided'
  BY <1>2, <1>4 DEF Request, Command, OtherRequest, CloseRequest, Quit,
                    EndOfFile, RawRequest, RawEnd, RawEof
<1>5. ASSUME NEW s \in Session, Proceed(s) PROVE Voided'
  <2>1. CASE \/ Executed(s) \/ PrecmdFails(s) \/ Reply(s) \/ ReplyFails(s)
             \/ OpenReply(s) \/ OpenReplyFails(s) \/ OpenFails(s) \/ RawOpens(s)
             \/ RawOpenFails(s) \/ RawExecuted(s) \/ RawCloses(s)
    BY <1>2, <2>1 DEF Executed, PrecmdFails, Reply, ReplyFails, OpenReply,
         OpenReplyFails, OpenFails, RawOpens, RawOpenFails, RawExecuted, RawCloses
  <2>2. CASE TtyFails(s) \/ LostSync(s) \/ SemopFails(s) \/ Exits(s)
    BY <1>3, <2>2 DEF TtyFails, LostSync, SemopFails, Exits
  <2>3. CASE OpenDevice(s) \/ CloseDevice(s) \/ Release(s)
    BY <2>3 DEF OpenDevice, CloseDevice, Release, vcontrol_semrelease, semaphore, Voided
  <2> QED
    BY <1>5, <2>1, <2>2, <2>3 DEF Proceed
<1>6. ASSUME NEW s \in Session, Accept(s) \/ Acquire(s) \/ Signal(s) PROVE Voided'
  <2>1. CASE Accept(s) \/ Acquire(s)
    BY <2>1 DEF Accept, Acquire, vcontrol_semget, Voided
  <2>2. CASE Signal(s)
    BY <1>3, <2>2 DEF Signal, SemopInterrupted, TermSession, Killed, Voided
  <2> QED
    BY <1>6, <2>1, <2>2
<1>7. CASE TermDaemon \/ UNCHANGED vars
  BY <1>7 DEF TermDaemon, vars, Voided
<1> QED
  BY <1>1, <1>4, <1>5, <1>6, <1>7 DEF Next

\* A step is a step of LinkLock or leaves it unchanged.
LEMMA StepImplements ==
  ASSUME IInv, [Next]_vars
  PROVE  [Lock!Next]_<<Users, Voided>>
<1>1. CASE Voided'
  BY <1>1 DEF Lock!Next, Lock!Void, Users, Voided
<1>2. CASE ~Voided'
  <2>1. ~Voided
    BY <1>2, VoidedForGood
  <2>2. \A s, t \in Users : s = t
    BY <2>1 DEF IInv, OneOnLink, Users, Voided
  <2>3. CASE UNCHANGED vars
    BY <2>3 DEF vars, Users, OnLink, Voided
  <2>4. CASE \A t \in Session : OnLink(t)' => OnLink(t)
    <3>1. Users' \subseteq Users
      BY <2>4 DEF Users
    <3>2. ASSUME Users' # Users PROVE \E s \in Session : Users = {s} /\ Users' = {}
      <4>1. PICK s \in Users : s \notin Users'
        BY <3>1, <3>2
      <4>2. Users = {s} /\ Users' = {}
        BY <4>1, <3>1, <2>2
      <4> QED
        BY <4>1, <4>2 DEF Users
    <3>3. Voided' = Voided
      BY <1>2, <2>1 DEF Voided
    <3> QED
      BY <3>2, <3>3, <2>1 DEF Users, Voided, Lock!Next, Lock!Leave
  <2>5. CASE \E s \in Session : Acquire(s)
    <3>1. PICK s \in Session : Acquire(s)
      BY <2>5
    <3>2. Users = {} /\ Users' \subseteq {s}
      BY <3>1, <2>1, AcquireEnters DEF Voided
    <3>3. Users' = Users \/ (Users = {} /\ Users' = {s})
      BY <3>2
    <3>4. Voided' = Voided
      BY <1>2, <2>1 DEF Voided
    <3> QED
      BY <3>3, <3>4, <2>1 DEF Users, Voided, Lock!Next, Lock!Enter
  <2>6. CASE Next
    <3>1. ~Restart
      BY <1>2 DEF Restart, Voided
    <3>2. ASSUME NEW s \in Session,
                 Accept(s) \/ Request(s) \/ Proceed(s) \/ Signal(s) \/ TermDaemon
          PROVE  \A t \in Session : OnLink(t)' => OnLink(t)
      BY <3>2, RequestShrinks, ProceedShrinks, OthersShrink DEF IInv
    <3>3. CASE TermDaemon
      BY <3>3, <2>4 DEF TermDaemon, OnLink
    <3> QED
      BY <2>6, <3>1, <3>2, <3>3, <2>4, <2>5 DEF Next
  <2> QED
    BY <2>3, <2>6
<1> QED
  BY <1>1, <1>2

\* Until a lock is released that is not held, the daemon implements LinkLock: the
\* link passes from one session to the next only through being free.
THEOREM LinkLockImplemented == Spec => ImplementsLinkLock
<1>1. Init => Lock!Init
  BY DEF Init, Lock!Init, OnLink, LinkPlace
<1>2. IInv /\ [Next]_vars => [Lock!Next]_(Lock!vars)
  BY StepImplements DEF Lock!vars, Users, Voided
<1> QED
  BY <1>1, <1>2, InvariantHolds, PTL DEF Spec, ImplementsLinkLock, Lock!Spec
=============================================================================
