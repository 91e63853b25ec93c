------------------------------- MODULE Reload -------------------------------
(***************************************************************************)
(* How a new configuration reaches the processes of vcontrold.  Every      *)
(* process has its own copy of the configuration: a session gets the       *)
(* daemon's when it is forked, replaces it when its client asks for        *)
(* `reload', and then sends SIGHUP to its parent, which reads the file     *)
(* once more for itself.  The file may have changed in between.            *)
(*                                                                         *)
(* A configuration is the number of the document it was read from.  What   *)
(* reading one document does to the lists of a process is in Config.       *)
(***************************************************************************)
EXTENDS Naturals, Sequences

CONSTANTS
  Session,     \* processes that serve one client each
  Daemon,      \* the process that accepts clients
  MaxEdits     \* bound: how often the file is written after the start

ASSUME SessionAssumption == Daemon \notin Session
ASSUME EditsAssumption   == MaxEdits \in Nat

Process == Session \cup {Daemon}

\* A document may be rejected by the XML parser or parseXMLFile(), or pass these
\* and end the process in compileCommand().
Kind == {"good", "unparsable", "uncompilable"}

VARIABLES
  docs,      \* the kinds of all documents the file has held, the present one last
  conf,      \* the document each process has in force
  pc,        \* what each process is doing
  running,   \* the document the command of each session was taken from
  hup,       \* the processes SIGHUP is pending for
  orphan,    \* the sessions whose daemon has ended
  tried      \* the document the daemon has read last, in vain or not

vars == <<docs, conf, pc, running, hup, orphan, tried>>

File == Len(docs)
Versions == 1..(MaxEdits + 1)
Place == {"none", "ready", "executing", "reloaded", "acked", "exited"}
Alive(p) == pc[p] \notin {"none", "exited"}

TypeOK == /\ docs \in Seq(Kind) /\ File \in Versions
          /\ conf \in [Process -> Versions]
          /\ pc \in [Process -> Place]
          /\ running \in [Session -> Versions]
          /\ hup \subseteq Process
          /\ orphan \subseteq Session
          /\ tried \in Versions

Init == /\ docs = <<"good">>
        /\ conf = [p \in Process |-> 1]
        /\ pc = [p \in Process |-> IF p = Daemon THEN "ready" ELSE "none"]
        /\ running = [s \in Session |-> 1]
        /\ hup = {} /\ orphan = {} /\ tried = 1

-----------------------------------------------------------------------------
(* reloadConfig() in process p, which is at place next if it survives: a   *)
(* document that does not parse leaves the lists alone, one that does not  *)
(* compile ends the process after the old lists are gone.                  *)
\* Variant: the lists are replaced although the document is refused.
ReloadFails_Installs(p, next) ==
  /\ docs[File] = "unparsable"
  /\ pc' = [pc EXCEPT ![p] = next]
  /\ conf' = [conf EXCEPT ![p] = File]

ReloadFails(p, next) ==
  /\ docs[File] = "unparsable"
  /\ pc' = [pc EXCEPT ![p] = next]
  /\ UNCHANGED conf

ReloadExits(p) ==
  /\ docs[File] = "uncompilable"
  /\ pc' = [pc EXCEPT ![p] = "exited"]
  /\ conf' = [conf EXCEPT ![p] = File]

ReloadSucceeds(p, next) ==
  /\ docs[File] = "good"
  /\ pc' = [pc EXCEPT ![p] = next]
  /\ conf' = [conf EXCEPT ![p] = File]

\* The sessions that lose their parent when process p ends.
LosesParent(p) == IF p = Daemon THEN {s \in Session : Alive(s)} ELSE {}

\* sigHupHandler(): at any instruction of a process for which the signal is pending.
HandleHup(p) ==
  /\ p \in hup /\ Alive(p)
  /\ hup' = hup \ {p}
  /\ tried' = IF p = Daemon THEN File ELSE tried
  /\ \/ (ReloadFails(p, pc[p]) \/ ReloadSucceeds(p, pc[p])) /\ UNCHANGED orphan
     \/ ReloadExits(p) /\ orphan' = orphan \cup LosesParent(p)
  /\ UNCHANGED <<docs, running>>

-----------------------------------------------------------------------------
(* A session.                                                              *)

\* Variant: the fork discards signals that are pending for the parent, too.
Connect_ClearsAll(s) ==
  /\ pc[Daemon] = "ready" /\ ~Alive(s)
  /\ pc' = [pc EXCEPT ![s] = "ready"]
  /\ conf' = [conf EXCEPT ![s] = conf[Daemon]]
  /\ hup' = {}
  /\ orphan' = orphan \ {s}
  /\ UNCHANGED <<docs, running, tried>>

\* listenToSocket() forks: the child has the daemon's lists, but no pending signal.
Connect(s) ==
  /\ pc[Daemon] = "ready" /\ ~Alive(s)
  /\ pc' = [pc EXCEPT ![s] = "ready"]
  /\ conf' = [conf EXCEPT ![s] = conf[Daemon]]
  /\ hup' = hup \ {s}
  /\ orphan' = orphan \ {s}
  /\ UNCHANGED <<docs, running, tried>>

\* A command is looked up, and its byte code is walked until CommandEnds.
CommandBegins(s) ==
  /\ pc[s] = "ready"
  /\ pc' = [pc EXCEPT ![s] = "executing"]
  /\ running' = [running EXCEPT ![s] = conf[s]]
  /\ UNCHANGED <<docs, conf, hup, orphan, tried>>

CommandEnds(s) ==
  /\ pc[s] = "executing"
  /\ pc' = [pc EXCEPT ![s] = "ready"]
  /\ UNCHANGED <<docs, conf, running, hup, orphan, tried>>

\* The request `reload'.  When it fails, the client is told so, and no more.
ReloadRequest(s) ==
  /\ pc[s] = "ready"
  /\ ReloadFails(s, "ready") \/ ReloadSucceeds(s, "reloaded") \/ ReloadExits(s)
  /\ UNCHANGED <<docs, running, hup, orphan, tried>>

\* The client is told that the file has been reloaded, before the daemon knows.
Acknowledge(s) ==
  /\ pc[s] = "reloaded"
  /\ pc' = [pc EXCEPT ![s] = "acked"]
  /\ UNCHANGED <<docs, conf, running, hup, orphan, tried>>

\* Variant: the signal goes to the whole process group.
Targets_Group(s) == Process

\* kill(getppid(), SIGHUP): whoever has adopted an orphan is no vcontrold.  A signal
\* that is pending already is not counted twice.
Targets(s) == IF s \in orphan THEN {} ELSE {Daemon}

\* Variant: the session keeps the new configuration to itself.
Signal_NotSent(s) ==
  /\ pc[s] = "acked"
  /\ pc' = [pc EXCEPT ![s] = "ready"]
  /\ UNCHANGED <<docs, conf, running, hup, orphan, tried>>

Signal(s) ==
  /\ pc[s] = "acked"
  /\ pc' = [pc EXCEPT ![s] = "ready"]
  /\ hup' = hup \cup {p \in Targets(s) : Alive(p)}
  /\ UNCHANGED <<docs, conf, running, orphan, tried>>

\* The client quits, or the process is killed.
SessionEnds(s) ==
  /\ Alive(s)
  /\ pc' = [pc EXCEPT ![s] = "none"]
  /\ UNCHANGED <<docs, conf, running, hup, orphan, tried>>

-----------------------------------------------------------------------------
(* The administrator.                                                      *)

\* The file is written again.
Edit ==
  /\ File <= MaxEdits
  /\ \E kind \in Kind : docs' = Append(docs, kind)
  /\ UNCHANGED <<conf, pc, running, hup, orphan, tried>>

\* ExecReload of the service: kill -HUP $MAINPID.
OperatorReload ==
  /\ Alive(Daemon)
  /\ hup' = hup \cup {Daemon}
  /\ UNCHANGED <<docs, conf, pc, running, orphan, tried>>

\* The daemon is terminated; its sessions go on.
StopDaemon ==
  /\ Alive(Daemon)
  /\ pc' = [pc EXCEPT ![Daemon] = "none"]
  /\ orphan' = orphan \cup LosesParent(Daemon)
  /\ UNCHANGED <<docs, conf, running, hup, tried>>

\* main(): only a document that parses and compiles lets it come up.
StartDaemon ==
  /\ ~Alive(Daemon) /\ docs[File] = "good"
  /\ pc' = [pc EXCEPT ![Daemon] = "ready"]
  /\ conf' = [conf EXCEPT ![Daemon] = File]
  /\ hup' = hup \ {Daemon}
  /\ tried' = File
  /\ UNCHANGED <<docs, running, orphan>>

-----------------------------------------------------------------------------
SessionStep(s) == \/ Connect(s) \/ CommandBegins(s) \/ CommandEnds(s)
                  \/ ReloadRequest(s) \/ Acknowledge(s) \/ Signal(s) \/ SessionEnds(s)

Next == \/ \E s \in Session : SessionStep(s)
        \/ \E p \in Process : HandleHup(p)
        \/ Edit \/ OperatorReload \/ StopDaemon \/ StartDaemon

Spec == Init /\ [][Next]_vars

\* A pending signal is delivered, and a process that has work to do is scheduled.
FairSpec == /\ Spec
            /\ \A p \in Process : WF_vars(HandleHup(p))
            /\ \A s \in Session : WF_vars(Acknowledge(s)) /\ WF_vars(Signal(s))

-----------------------------------------------------------------------------
(* Properties.                                                             *)

\* Once no SIGHUP is pending for it, the daemon has read a document at least as new
\* as the one any of its sessions uses, except those that are about to tell it: the
\* file is read after the signal is taken, and the signal is sent after the session
\* has read the file.
DaemonHasReadIt ==
  Alive(Daemon) /\ Daemon \notin hup =>
    \A s \in Session :
      Alive(s) /\ s \notin orphan /\ pc[s] \notin {"reloaded", "acked"} => conf[s] <= tried

\* No process walks the byte code of a configuration it has freed: the handler, which
\* may run between any two instructions, never runs in a process that executes a
\* command.
RunsItsConfiguration ==
  \A s \in Session : pc[s] = "executing" => running[s] = conf[s]

\* The daemon uses what it has read last, or something older because the last
\* document was refused; it never goes back behind a refusal, and what it uses
\* compiles.
DaemonConfigurationIsGood ==
  Alive(Daemon) => /\ docs[conf[Daemon]] = "good"
                   /\ conf[Daemon] <= tried
                   /\ conf[Daemon] < tried => docs[tried] = "unparsable"

\* A reload that a client was told of reaches the daemon: it reads a document as new
\* as the client's or ends, unless the session dies between the answer and kill().
AcknowledgedReachesDaemon ==
  \A s \in Session : \A v \in Versions :
    pc[s] = "acked" /\ conf[s] = v /\ s \notin orphan
      ~> tried >= v \/ ~Alive(Daemon) \/ ~Alive(s) \/ s \in orphan
=============================================================================
