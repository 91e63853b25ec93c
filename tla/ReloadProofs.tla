---------------------------- MODULE ReloadProofs ----------------------------
(***************************************************************************)
(* Proofs about Reload for any number of sessions and of edits: types, and *)
(* the three safety properties, from one inductive invariant.  What makes  *)
(* them inductive is that SIGHUP is only ever pending for the daemon, and  *)
(* that every document in force or tried is one the file has held.         *)
(***************************************************************************)
EXTENDS Reload, TLAPS

Known == /\ \A p \in Process : conf[p] <= File
         /\ tried <= File
         /\ hup \subseteq {Daemon}

IInv == /\ TypeOK
        /\ Known
        /\ DaemonConfigurationIsGood
        /\ DaemonHasReadIt
        /\ RunsItsConfiguration

\* The inductive invariant holds when the daemon has come up for the first time.
LEMMA InitIInv == Init => IInv
<1> SUFFICES ASSUME Init PROVE IInv
  OBVIOUS
<1> USE SessionAssumption, EditsAssumption
<1>1. docs \in Seq(Kind) /\ File = 1 /\ docs[1] = "good"
  BY DEF Init, File, Kind
<1>2. TypeOK
  BY <1>1 DEF Init, TypeOK, Versions, Place, Process
<1>3. Known
  BY <1>1 DEF Init, Known
<1>4. DaemonConfigurationIsGood
  BY <1>1 DEF Init, DaemonConfigurationIsGood, Process
<1>5. DaemonHasReadIt /\ RunsItsConfiguration
  BY DEF Init, DaemonHasReadIt, RunsItsConfiguration, Alive, Process
<1> QED
  BY <1>2, <1>3, <1>4, <1>5 DEF IInv

\* Writing the file once more adds a document and leaves the earlier ones as they were.
LEMMA EditKeepsDocuments ==
  ASSUME TypeOK, Edit
  PROVE  /\ docs' \in Seq(Kind)
         /\ File' = File + 1
         /\ File' \in Versions
         /\ \A i \in 1..File : docs'[i] = docs[i]
<1>1. PICK kind \in Kind : docs' = Append(docs, kind)
  BY DEF Edit
<1>2. docs \in Seq(Kind) /\ File \in Nat
  BY DEF TypeOK, File
<1>3. docs' \in Seq(Kind) /\ Len(docs') = Len(docs) + 1
  BY <1>1, <1>2
<1>4. \A i \in 1..Len(docs) : docs'[i] = docs[i]
  BY <1>1, <1>2
<1> QED
  BY <1>2, <1>3, <1>4, EditsAssumption DEF Edit, TypeOK, File, Versions

\* reloadConfig() changes nothing but the place and the configuration of its process.
LEMMA ReloadTypes ==
  ASSUME TypeOK, Known, NEW p \in Process, NEW next \in Place,
         ReloadFails(p, next) \/ ReloadSucceeds(p, next) \/ ReloadExits(p)
  PROVE  /\ pc' \in [Process -> Place]
         /\ conf' \in [Process -> Versions]
         /\ conf'[p] <= File
         /\ \A q \in Process : q # p => conf'[q] = conf[q] /\ pc'[q] = pc[q]
<1>1. "exited" \in Place
  BY DEF Place
<1>2. /\ pc \in [Process -> Place] /\ conf \in [Process -> Versions]
      /\ File \in Versions /\ File \in Nat /\ conf[p] <= File
  BY DEF TypeOK, Known, File, Versions
<1>3. CASE ReloadFails(p, next)
  BY <1>2, <1>3 DEF ReloadFails
<1>4. CASE ReloadSucceeds(p, next)
  BY <1>2, <1>4 DEF ReloadSucceeds
<1>5. CASE ReloadExits(p)
  BY <1>1, <1>2, <1>5 DEF ReloadExits
<1> QED
  BY <1>3, <1>4, <1>5

\* Types are preserved by every step.
LEMMA TypeStep ==
  ASSUME IInv, [Next]_vars
  PROVE  TypeOK'
<1> USE SessionAssumption, EditsAssumption
<1> USE DEF TypeOK, IInv
<1>1. CASE UNCHANGED vars
  BY <1>1 DEF vars, File, Versions
<1>2. ASSUME NEW s \in Session, SessionStep(s)
      PROVE  TypeOK'
  <2>1. s \in Process
    BY DEF Process
  <2>2. CASE Connect(s)
    BY <2>1, <2>2 DEF Connect, Process, Place, File, Versions
  <2>3. CASE CommandBegins(s)
    BY <2>1, <2>3 DEF CommandBegins, Place, File, Versions
  <2>4. CASE CommandEnds(s)
    BY <2>1, <2>4 DEF CommandEnds, Place, File, Versions
  <2>5. CASE ReloadRequest(s)
    <3>1. "ready" \in Place /\ "reloaded" \in Place
      BY DEF Place
    <3>2. pc' \in [Process -> Place] /\ conf' \in [Process -> Versions]
      <4>1. CASE ReloadFails(s, "ready")
        BY <2>1, <3>1, <4>1, ReloadTypes
      <4>2. CASE ReloadSucceeds(s, "reloaded")
        BY <2>1, <3>1, <4>2, ReloadTypes
      <4>3. CASE ReloadExits(s)
        BY <2>1, <3>1, <4>3, ReloadTypes
      <4> QED
        BY <2>5, <4>1, <4>2, <4>3 DEF ReloadRequest
    <3> QED
      BY <2>5, <3>2 DEF ReloadRequest, File, Versions
  <2>6. CASE Acknowledge(s)
    BY <2>1, <2>6 DEF Acknowledge, Place, File, Versions
  <2>7. CASE Signal(s)
    BY <2>1, <2>7 DEF Signal, Targets, Place, Process, File, Versions
  <2>8. CASE SessionEnds(s)
    BY <2>1, <2>8 DEF SessionEnds, Place, File, Versions
  <2> QED
    BY <1>2, <2>2, <2>3, <2>4, <2>5, <2>6, <2>7, <2>8 DEF SessionStep
<1>3. ASSUME NEW p \in Process, HandleHup(p)
      PROVE  TypeOK'
  <2>1. pc[p] \in Place
    OBVIOUS
  <2>2. pc' \in [Process -> Place] /\ conf' \in [Process -> Versions]
    BY <1>3, <2>1, ReloadTypes DEF HandleHup
  <2>3. orphan' \subseteq Session
    BY <1>3 DEF HandleHup, LosesParent
  <2> QED
    BY <1>3, <2>2, <2>3 DEF HandleHup, File, Versions
<1>4. CASE Edit
  <2>1. docs' \in Seq(Kind) /\ File' \in Versions
    BY <1>4, EditKeepsDocuments
  <2> QED
    BY <1>4, <2>1 DEF Edit, Versions
<1>5. CASE OperatorReload
  BY <1>5 DEF OperatorReload, Process, File, Versions
<1>6. CASE StopDaemon
  BY <1>6 DEF StopDaemon, LosesParent, Process, Place, File, Versions
<1>7. CASE StartDaemon
  BY <1>7 DEF StartDaemon, Process, Place, File, Versions
<1> QED
  BY <1>1, <1>2, <1>3, <1>4, <1>5, <1>6, <1>7 DEF Next

-----------------------------------------------------------------------------
(***************************************************************************)
(* What every kind of step leaves alone.  Steps are sorted by what they do *)
(* to the configurations: most do nothing, reloadConfig() replaces one, a  *)
(* fork copies the daemon's and a start reads the file.                    *)
(***************************************************************************)

\* Steps that read no document and copy no configuration.
Quiet(s) == \/ CommandBegins(s) \/ CommandEnds(s) \/ Acknowledge(s)
            \/ Signal(s) \/ SessionEnds(s)

LEMMA QuietStep ==
  ASSUME IInv, NEW s \in Session, Quiet(s)
  PROVE  /\ docs' = docs /\ conf' = conf /\ tried' = tried /\ orphan' = orphan
         /\ \A p \in Process : p # s => pc'[p] = pc[p]
         /\ hup \subseteq hup' /\ hup' \subseteq hup \cup {Daemon}
         /\ Alive(s)
<1>1. pc \in [Process -> Place] /\ s \in Process /\ s # Daemon
  BY SessionAssumption DEF IInv, TypeOK, Process
<1> QED
  BY <1>1 DEF Quiet, CommandBegins, CommandEnds, Acknowledge, Signal, SessionEnds,
              Targets, Alive

\* A document that a process has in force is one the file has held, and no other
\* process than the daemon is sent a SIGHUP.
LEMMA KnownStep ==
  ASSUME IInv, [Next]_vars
  PROVE  Known'
<1> USE SessionAssumption, EditsAssumption
<1>1. /\ conf \in [Process -> Versions] /\ tried \in Versions /\ Daemon \in Process
      /\ File \in Nat /\ Known
  BY DEF IInv, TypeOK, Process, File
<1>2. CASE UNCHANGED vars
  BY <1>1, <1>2 DEF vars, Known, File
<1>3. ASSUME NEW s \in Session, SessionStep(s)
      PROVE  Known'
  <2>1. s \in Process
    BY DEF Process
  <2>2. CASE Connect(s)
    BY <1>1, <2>1, <2>2 DEF Connect, Known, File
  <2>3. CASE ReloadRequest(s)
    <3>1. \A q \in Process : conf'[q] <= File
      <4>1. CASE ReloadFails(s, "ready")
        BY <1>1, <4>1 DEF ReloadFails, Known
      <4>2. CASE ReloadSucceeds(s, "reloaded") \/ ReloadExits(s)
        BY <1>1, <2>1, <4>2 DEF ReloadSucceeds, ReloadExits, Known
      <4> QED
        BY <2>3, <4>1, <4>2 DEF ReloadRequest
    <3> QED
      BY <1>1, <2>3, <3>1 DEF ReloadRequest, Known, File
  <2>4. CASE Quiet(s)
    BY <1>1, <2>4, QuietStep DEF Known, File
  <2> QED
    BY <1>3, <2>2, <2>3, <2>4 DEF SessionStep, Quiet
<1>4. ASSUME NEW p \in Process, HandleHup(p)
      PROVE  Known'
  <2>1. \A q \in Process : conf'[q] <= File
    <3>1. CASE ReloadFails(p, pc[p])
      BY <1>1, <3>1 DEF ReloadFails, Known
    <3>2. CASE ReloadSucceeds(p, pc[p]) \/ ReloadExits(p)
      BY <1>1, <3>2 DEF ReloadSucceeds, ReloadExits, Known
    <3> QED
      BY <1>4, <3>1, <3>2 DEF HandleHup
  <2> QED
    BY <1>1, <1>4, <2>1 DEF HandleHup, Known, File
<1>5. CASE Edit
  <2>1. File' = File + 1 /\ conf' = conf /\ tried' = tried /\ hup' = hup
    BY <1>5, EditKeepsDocuments DEF Edit, IInv
  <2>2. \A p \in Process : conf[p] \in Nat
    BY <1>1 DEF Versions
  <2> QED
    BY <1>1, <2>1, <2>2 DEF Known, Versions
<1>6. CASE OperatorReload \/ StopDaemon
  BY <1>1, <1>6 DEF OperatorReload, StopDaemon, Known, File
<1>7. CASE StartDaemon
  BY <1>1, <1>7 DEF StartDaemon, Known, File
<1> QED
  BY <1>2, <1>3, <1>4, <1>5, <1>6, <1>7 DEF Next

\* The daemon never falls behind what it has tried, but for a refusal.
LEMMA GoodStep ==
  ASSUME IInv, [Next]_vars
  PROVE  DaemonConfigurationIsGood'
<1> USE SessionAssumption, EditsAssumption
<1>1. /\ conf \in [Process -> Versions] /\ tried \in Versions /\ Daemon \in Process
      /\ pc \in [Process -> Place]
      /\ File \in Nat /\ Known /\ DaemonConfigurationIsGood
  BY DEF IInv, TypeOK, Process, File
<1>2. CASE UNCHANGED vars
  BY <1>1, <1>2 DEF vars, DaemonConfigurationIsGood, Alive
<1>3. ASSUME NEW s \in Session, SessionStep(s)
      PROVE  DaemonConfigurationIsGood'
  <2>1. s \in Process /\ s # Daemon
    BY DEF Process
  <2>2. docs' = docs /\ tried' = tried
    BY <1>3, QuietStep DEF SessionStep, Quiet, Connect, ReloadRequest
  <2>3. conf'[Daemon] = conf[Daemon] /\ pc'[Daemon] = pc[Daemon]
    <3>1. CASE Connect(s)
      BY <1>1, <2>1, <3>1 DEF Connect
    <3>2. CASE ReloadRequest(s)
      BY <1>1, <2>1, <3>2 DEF ReloadRequest, ReloadFails, ReloadSucceeds, ReloadExits
    <3>3. CASE Quiet(s)
      BY <1>1, <2>1, <3>3, QuietStep
    <3> QED
      BY <1>3, <3>1, <3>2, <3>3 DEF SessionStep, Quiet
  <2> QED
    BY <1>1, <2>2, <2>3 DEF DaemonConfigurationIsGood, Alive
<1>4. ASSUME NEW p \in Process, HandleHup(p)
      PROVE  DaemonConfigurationIsGood'
  <2>1. p = Daemon /\ tried' = File /\ docs' = docs
    BY <1>1, <1>4 DEF HandleHup, Known
  <2>2. conf[Daemon] \in Nat /\ conf[Daemon] <= File /\ Alive(Daemon)
    BY <1>1, <1>4, <2>1 DEF Known, Versions, HandleHup
  <2>3. CASE ReloadFails(Daemon, pc[Daemon])
    BY <1>1, <2>1, <2>2, <2>3 DEF ReloadFails, DaemonConfigurationIsGood, Alive
  <2>4. CASE ReloadSucceeds(Daemon, pc[Daemon])
    BY <1>1, <2>1, <2>2, <2>4 DEF ReloadSucceeds, DaemonConfigurationIsGood, Alive
  <2>5. CASE ReloadExits(Daemon)
    BY <1>1, <2>5 DEF ReloadExits, DaemonConfigurationIsGood, Alive
  <2> QED
    BY <1>4, <2>1, <2>3, <2>4, <2>5 DEF HandleHup
<1>5. CASE Edit
  <2>1. /\ \A i \in 1..File : docs'[i] = docs[i]
        /\ conf' = conf /\ pc' = pc /\ tried' = tried
    BY <1>5, EditKeepsDocuments DEF Edit, IInv
  <2>2. conf[Daemon] \in 1..File /\ tried \in 1..File
    BY <1>1 DEF Known, Versions
  <2> QED
    BY <1>1, <2>1, <2>2 DEF DaemonConfigurationIsGood, Alive
<1>6. CASE OperatorReload
  BY <1>1, <1>6 DEF OperatorReload, DaemonConfigurationIsGood, Alive
<1>7. CASE StopDaemon
  BY <1>1, <1>7 DEF StopDaemon, DaemonConfigurationIsGood, Alive
<1>8. CASE StartDaemon
  BY <1>1, <1>8 DEF StartDaemon, DaemonConfigurationIsGood, Alive
<1> QED
  BY <1>2, <1>3, <1>4, <1>5, <1>6, <1>7, <1>8 DEF Next

\* The daemon reads the file after it has taken the signal, a session before it sends it.
LEMMA ReadStep ==
  ASSUME IInv, [Next]_vars
  PROVE  DaemonHasReadIt'
<1> USE SessionAssumption, EditsAssumption
<1>1. /\ conf \in [Process -> Versions] /\ tried \in Versions /\ Daemon \in Process
      /\ pc \in [Process -> Place] /\ Session \subseteq Process /\ Daemon \notin Session
      /\ File \in Nat /\ Known /\ DaemonConfigurationIsGood /\ DaemonHasReadIt
  BY DEF IInv, TypeOK, Process, File
<1>2. CASE UNCHANGED vars
  BY <1>1, <1>2 DEF vars, DaemonHasReadIt, Alive
<1>3. ASSUME NEW s \in Session, SessionStep(s)
      PROVE  DaemonHasReadIt'
  <2>1. CASE Connect(s)
    <3>1. Alive(Daemon) /\ conf[Daemon] <= tried
      BY <1>1, <2>1 DEF Connect, Alive, DaemonConfigurationIsGood
    <3>2. /\ conf'[s] = conf[Daemon] /\ tried' = tried /\ pc'[Daemon] = pc[Daemon]
          /\ hup' = hup \ {s} /\ orphan' = orphan \ {s}
          /\ \A r \in Session : r # s => conf'[r] = conf[r] /\ pc'[r] = pc[r]
      BY <1>1, <2>1 DEF Connect
    <3>3. conf'[s] <= tried'
      BY <3>1, <3>2
    <3>4. ASSUME Daemon \notin hup', NEW r \in Session, r # s, Alive(r)', r \notin orphan',
                 pc'[r] \notin {"reloaded", "acked"}
          PROVE  conf'[r] <= tried'
      <4>1. Daemon \notin hup /\ r \notin orphan
        BY <1>1, <3>2, <3>4
      <4>2. conf'[r] = conf[r] /\ pc'[r] = pc[r] /\ tried' = tried
        BY <3>2, <3>4
      <4>3. Alive(r) /\ pc[r] \notin {"reloaded", "acked"}
        BY <3>4, <4>2 DEF Alive
      <4> QED
        BY <1>1, <3>1, <4>1, <4>2, <4>3 DEF DaemonHasReadIt
    <3> QED
      BY <3>3, <3>4 DEF DaemonHasReadIt
  <2>2. CASE ReloadRequest(s)
    <3>1. /\ tried' = tried /\ hup' = hup /\ orphan' = orphan /\ pc'[Daemon] = pc[Daemon]
          /\ \A r \in Session : r # s => conf'[r] = conf[r] /\ pc'[r] = pc[r]
      BY <1>1, <2>2 DEF ReloadRequest, ReloadFails, ReloadSucceeds, ReloadExits
    <3>2. \/ conf'[s] = conf[s] /\ pc[s] = "ready"
          \/ pc'[s] \in {"reloaded", "exited"}
      BY <1>1, <2>2 DEF ReloadRequest, ReloadFails, ReloadSucceeds, ReloadExits
    <3> QED
      BY <1>1, <3>1, <3>2 DEF DaemonHasReadIt, Alive
  <2>3. CASE Signal(s)
    <3>1. /\ tried' = tried /\ orphan' = orphan /\ conf' = conf
          /\ pc'[Daemon] = pc[Daemon]
          /\ \A r \in Session : r # s => pc'[r] = pc[r]
      BY <1>1, <2>3 DEF Signal
    <3>2. Alive(Daemon) /\ s \notin orphan => Daemon \in hup'
      BY <2>3 DEF Signal, Targets
    <3>3. Daemon \notin hup' => Daemon \notin hup
      BY <2>3 DEF Signal
    <3> QED
      BY <1>1, <3>1, <3>2, <3>3 DEF DaemonHasReadIt, Alive
  <2>4. CASE CommandBegins(s) \/ CommandEnds(s) \/ Acknowledge(s) \/ SessionEnds(s)
    <3>1. /\ conf' = conf /\ tried' = tried /\ orphan' = orphan /\ hup' = hup
          /\ \A p \in Process : p # s => pc'[p] = pc[p]
      BY <1>1, <2>4 DEF CommandBegins, CommandEnds, Acknowledge, SessionEnds
    <3>2. /\ Alive(s)
          /\ pc'[s] \in {"none", "acked"} \/ pc[s] \in {"ready", "executing"}
      BY <1>1, <2>4 DEF CommandBegins, CommandEnds, Acknowledge, SessionEnds, Alive
    <3> QED
      BY <1>1, <3>1, <3>2 DEF DaemonHasReadIt, Alive
  <2> QED
    BY <1>3, <2>1, <2>2, <2>3, <2>4 DEF SessionStep
<1>4. ASSUME NEW p \in Process, HandleHup(p)
      PROVE  DaemonHasReadIt'
  <2>1. p = Daemon /\ tried' = File
    BY <1>1, <1>4 DEF HandleHup, Known
  <2>2. \A r \in Session : conf'[r] = conf[r]
    BY <1>1, <1>4, <2>1 DEF HandleHup, ReloadFails, ReloadSucceeds, ReloadExits
  <2> QED
    BY <1>1, <2>1, <2>2 DEF DaemonHasReadIt, Known
<1>5. CASE Edit
  BY <1>1, <1>5 DEF Edit, DaemonHasReadIt, Alive
<1>6. CASE OperatorReload
  BY <1>1, <1>6 DEF OperatorReload, DaemonHasReadIt, Alive
<1>7. CASE StopDaemon
  BY <1>1, <1>7 DEF StopDaemon, DaemonHasReadIt, Alive
<1>8. CASE StartDaemon
  BY <1>1, <1>8 DEF StartDaemon, DaemonHasReadIt, Known
<1> QED
  BY <1>2, <1>3, <1>4, <1>5, <1>6, <1>7, <1>8 DEF Next

\* A handler runs in the daemon alone, and a session that replaces its lists is not in
\* a command.
LEMMA RunStep ==
  ASSUME IInv, [Next]_vars
  PROVE  RunsItsConfiguration'
<1> USE SessionAssumption
<1>1. /\ conf \in [Process -> Versions] /\ pc \in [Process -> Place]
      /\ running \in [Session -> Versions] /\ Daemon \in Process
      /\ Session \subseteq Process /\ Daemon \notin Session
      /\ Known /\ RunsItsConfiguration
  BY DEF IInv, TypeOK, Process
<1>2. CASE UNCHANGED vars
  BY <1>1, <1>2 DEF vars, RunsItsConfiguration
<1>3. ASSUME NEW s \in Session, SessionStep(s)
      PROVE  RunsItsConfiguration'
  <2>1. CASE Connect(s)
    BY <1>1, <2>1 DEF Connect, RunsItsConfiguration
  <2>2. CASE CommandBegins(s)
    BY <1>1, <2>2 DEF CommandBegins, RunsItsConfiguration
  <2>3. CASE ReloadRequest(s)
    <3>1. /\ running' = running /\ pc'[s] # "executing"
          /\ \A r \in Session : r # s => conf'[r] = conf[r] /\ pc'[r] = pc[r]
      BY <1>1, <2>3 DEF ReloadRequest, ReloadFails, ReloadSucceeds, ReloadExits
    <3> QED
      BY <1>1, <3>1 DEF RunsItsConfiguration
  <2>4. CASE CommandEnds(s) \/ Acknowledge(s) \/ Signal(s) \/ SessionEnds(s)
    <3>1. /\ running' = running /\ conf' = conf /\ pc'[s] # "executing"
          /\ \A r \in Session : r # s => pc'[r] = pc[r]
      BY <1>1, <2>4 DEF CommandEnds, Acknowledge, Signal, SessionEnds
    <3> QED
      BY <1>1, <3>1 DEF RunsItsConfiguration
  <2> QED
    BY <1>3, <2>1, <2>2, <2>3, <2>4 DEF SessionStep
<1>4. ASSUME NEW p \in Process, HandleHup(p)
      PROVE  RunsItsConfiguration'
  <2>1. p = Daemon /\ running' = running
    BY <1>1, <1>4 DEF HandleHup, Known
  <2>2. \A r \in Session : conf'[r] = conf[r] /\ pc'[r] = pc[r]
    BY <1>1, <1>4, <2>1 DEF HandleHup, ReloadFails, ReloadSucceeds, ReloadExits
  <2> QED
    BY <1>1, <2>1, <2>2 DEF RunsItsConfiguration
<1>5. CASE Edit \/ OperatorReload
  BY <1>1, <1>5 DEF Edit, OperatorReload, RunsItsConfiguration
<1>6. CASE StopDaemon \/ StartDaemon
  BY <1>1, <1>6 DEF StopDaemon, StartDaemon, RunsItsConfiguration
<1> QED
  BY <1>2, <1>3, <1>4, <1>5, <1>6 DEF Next

-----------------------------------------------------------------------------
(***************************************************************************)
(* The theorems.                                                           *)
(***************************************************************************)

\* The invariant holds in every reachable state.
LEMMA Invariance == Spec => []IInv
<1>1. IInv /\ [Next]_vars => IInv'
  BY TypeStep, KnownStep, GoodStep, ReadStep, RunStep DEF IInv
<1> QED
  BY InitIInv, <1>1, PTL DEF Spec

\* Types, for any number of sessions and edits.
THEOREM TypeCorrect == Spec => []TypeOK
<1>1. IInv => TypeOK
  BY DEF IInv
<1> QED
  BY Invariance, <1>1, PTL

\* However requests, signals, edits, deaths and restarts are interleaved, a daemon with
\* no signal pending has read a document as new as that of any session of its own.
THEOREM ReloadIsRead == Spec => []DaemonHasReadIt
<1>1. IInv => DaemonHasReadIt
  BY DEF IInv
<1> QED
  BY Invariance, <1>1, PTL

\* No session's configuration is replaced while the session executes a command of it.
THEOREM NoCommandOfFreedConfiguration == Spec => []RunsItsConfiguration
<1>1. IInv => RunsItsConfiguration
  BY DEF IInv
<1> QED
  BY Invariance, <1>1, PTL

\* A running daemon has a configuration that compiles: the last it has tried, or an
\* older one when the last did not parse.
THEOREM DaemonUsesGoodConfiguration == Spec => []DaemonConfigurationIsGood
<1>1. IInv => DaemonConfigurationIsGood
  BY DEF IInv
<1> QED
  BY Invariance, <1>1, PTL
=============================================================================
