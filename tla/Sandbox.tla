------------------------------ MODULE Sandbox ------------------------------
(***************************************************************************)
(* One job in src/sandbox.py: run() in a worker thread, cancel() called    *)
(* from the agent's event loop while it runs, and the memory watchdog, a   *)
(* thread of its own.  SubprocessSandbox may install packages with pip     *)
(* first; DockerSandbox waits for a `docker run` client, whose container   *)
(* the daemon starts in its own time.                                      *)
(*                                                                         *)
(* The threads share _cancelled, _proc (or _container) and a lock.  cancel *)
(* holds the lock over its kill; the worker takes it to look at _cancelled *)
(* and start a process in one; the watchdog and the wall-clock limit kill  *)
(* without it.  Only the process itself is modelled: its descendants are   *)
(* killed with it where psutil is installed, and not at all without.       *)
(***************************************************************************)
EXTENDS Naturals

CONSTANT Backends   \* the kinds of sandbox considered

ASSUME BackendsAssumption == Backends \subseteq {"subprocess", "docker"}

VARIABLES
  backend,    \* which sandbox this is
  pip,        \* the job lists packages that are not in the cache
  watched,    \* the job has a memory limit, so the watchdog runs
  pc,         \* the worker
  result,     \* the status run() returns, "raised" for an exception
  cancelled,  \* _cancelled
  canceller,  \* cancel(): "idle", or "kill" with the lock held
  ref,        \* _proc, or _container: what cancel() would kill
  inst,       \* the pip process: "none", "alive", "killed", "ok" or "error"
  main,       \* the job's process (docker: the container), likewise
  client,     \* the `docker run` client: "none", "alive" or "dead"
  dog,        \* the watchdog: "off", "watching", "kill" or "over"
  oom,        \* oom_flag["hit"]
  timedOut    \* timed_out of _run_streaming, or pip's TimeoutExpired

processes == <<inst, main, client>>
locals == <<backend, pip, watched>>
vars == <<locals, pc, result, cancelled, canceller, ref, processes, dog, oom, timedOut>>

Subprocess == backend = "subprocess"
Docker == backend = "docker"
LockFree == canceller = "idle"

Init ==
  /\ backend \in Backends
  /\ pip \in BOOLEAN
  /\ watched \in BOOLEAN
  /\ Docker => ~pip /\ ~watched
  /\ pc = "begin"
  /\ result = "none"
  /\ cancelled = FALSE
  /\ canceller = "idle"
  /\ ref = "none"
  /\ inst = "none"
  /\ main = "none"
  /\ client = "none"
  /\ dog = "off"
  /\ oom = FALSE
  /\ timedOut = FALSE

----------------------------------------------------------------------------
(* Killing *)

Stop(p) == IF p = "alive" THEN "killed" ELSE p

\* _kill: whatever _proc is now.  docker kill by name: the container, if the
\* daemon has started it; that the command fails or takes too long is ignored.
Kill ==
  /\ inst' = IF ref = "inst" THEN Stop(inst) ELSE inst
  /\ \/ main' = IF ref = "main" THEN Stop(main) ELSE main
     \/ Docker /\ UNCHANGED main

\* cancel() takes the lock and sets the flag: at any time from the making of the
\* sandbox on, before run() has begun and when it has returned, and again ...
Cancel ==
  /\ canceller = "idle"
  /\ cancelled' = TRUE
  /\ canceller' = "kill"
  /\ UNCHANGED <<locals, pc, result, ref, processes, dog, oom, timedOut>>

\* A mutant of CancelKills: the flag is thought to be enough.
MutCancelKills ==
  /\ canceller = "kill"
  /\ canceller' = "idle"
  /\ UNCHANGED <<locals, pc, result, cancelled, ref, processes, dog, oom, timedOut>>

\* ... and kills, and lets the lock go.
CancelKills ==
  /\ canceller = "kill"
  /\ Kill
  /\ canceller' = "idle"
  /\ UNCHANGED <<locals, pc, result, cancelled, ref, client, dog, oom, timedOut>>

\* A mutant of DogBites: the process is killed before the flag is set.
MutDogBites ==
  /\ dog = "watching"
  /\ main = "alive"
  /\ dog' = "kill"
  /\ Kill
  /\ UNCHANGED <<locals, pc, result, cancelled, canceller, ref, client, oom, timedOut>>

\* The watchdog finds the process over its limit: the flag first ...
DogBites ==
  /\ dog = "watching"
  /\ main = "alive"
  /\ oom' = TRUE
  /\ dog' = "kill"
  /\ UNCHANGED <<locals, pc, result, cancelled, canceller, ref, processes, timedOut>>

\* ... then the kill, without the lock, of whatever _proc is by then.
DogKills ==
  /\ dog = "kill"
  /\ Kill
  /\ dog' = "over"
  /\ UNCHANGED <<locals, pc, result, cancelled, canceller, ref, client, oom, timedOut>>

----------------------------------------------------------------------------
(* Processes *)

\* A process ends by itself.
Exits ==
  /\ \/ inst = "alive" /\ inst' \in {"ok", "error"} /\ UNCHANGED main
     \/ main = "alive" /\ main' \in {"ok", "error"} /\ UNCHANGED inst
  /\ UNCHANGED <<locals, pc, result, cancelled, canceller, ref, client, dog, oom, timedOut>>

\* The daemon starts the container: it has pulled the image, or had the request
\* of a client that is dead by now.
ContainerStarts ==
  /\ main = "creating"
  /\ main' = "alive"
  /\ UNCHANGED <<locals, pc, result, cancelled, canceller, ref, inst, client, dog, oom, timedOut>>

\* Or makes none: the image is not to be had, or the client that asked is gone.
ContainerDropped ==
  /\ main = "creating"
  /\ main' = "none"
  /\ UNCHANGED <<locals, pc, result, cancelled, canceller, ref, inst, client, dog, oom, timedOut>>

----------------------------------------------------------------------------
(* The worker: run() *)

Goto(label) == pc' = label

Finally(status) == result' = status /\ Goto("finally")

\* Directories, script and inputs are written, which may raise: there is no room, or
\* the interpreter is not supported.  Docker may be missing, or packages be asked of
\* it.  Nothing here looks at the flag.
Begin ==
  /\ pc = "begin"
  /\ \/ Goto(IF pip THEN "install" ELSE "spawn") /\ UNCHANGED result
     \/ result' = "raised" /\ pc' \in {"finally", "returned"}
     \/ Docker /\ result' = "error" /\ Goto("returned")
  /\ UNCHANGED <<locals, cancelled, canceller, ref, processes, dog, oom, timedOut>>

\* _install_deps: under the lock, either pip is started or the job is cancelled.
\* Popen may raise.
Install ==
  /\ pc = "install"
  /\ LockFree
  /\ \/ cancelled /\ Finally("cancelled") /\ UNCHANGED <<ref, inst>>
     \/ ~cancelled /\ Finally("raised") /\ UNCHANGED <<ref, inst>>
     \/ /\ ~cancelled
        /\ Goto("installing") /\ UNCHANGED result
        /\ ref' = "inst" /\ inst' = "alive"
  /\ UNCHANGED <<locals, cancelled, canceller, main, client, dog, oom, timedOut>>

\* communicate() returns, or its limit passes and pip is killed.  As in LimitPasses
\* below, the limit and the kill are one step: what ends between is as if killed.
InstallReturns ==
  /\ pc = "installing"
  /\ \/ inst # "alive" /\ UNCHANGED <<inst, timedOut>>
     \/ inst = "alive" /\ inst' = "killed" /\ timedOut' = TRUE
  /\ Goto("installed")
  /\ UNCHANGED <<locals, result, cancelled, canceller, ref, main, client, dog, oom>>

\* The finally takes the lock to clear _proc.
InstallCleared ==
  /\ pc = "installed"
  /\ LockFree
  /\ ref' = "none"
  /\ Goto("check")
  /\ UNCHANGED <<locals, result, cancelled, canceller, processes, dog, oom, timedOut>>

\* The outcome of the install; _cancelled is read without the lock.
InstallChecked ==
  /\ pc = "check"
  /\ \/ timedOut /\ Finally("timeout")
     \/ ~timedOut /\ cancelled /\ Finally("cancelled")
     \/ ~timedOut /\ ~cancelled /\ inst # "ok" /\ Finally("error")
     \/ ~timedOut /\ ~cancelled /\ inst = "ok" /\ Goto("publish") /\ UNCHANGED result
  /\ UNCHANGED <<locals, cancelled, canceller, ref, processes, dog, oom, timedOut>>

\* The finished install is moved into the cache and the launcher is written, which
\* may fail, and the flag is not looked at.
Publish ==
  /\ pc = "publish"
  /\ \/ Goto("spawn") /\ UNCHANGED result
     \/ Finally("error")
     \/ Finally("raised")
  /\ UNCHANGED <<locals, cancelled, canceller, ref, processes, dog, oom, timedOut>>

\* A mutant of Spawn: the flag is not looked at under the lock.
MutSpawn ==
  /\ pc = "spawn"
  /\ LockFree
  /\ Goto("wait")
  /\ ref' = "main"
  /\ main' = IF Docker THEN "creating" ELSE "alive"
  /\ client' = IF Docker THEN "alive" ELSE "none"
  /\ dog' = IF watched THEN "watching" ELSE "off"
  /\ UNCHANGED <<locals, result, cancelled, canceller, inst, oom, timedOut>>

\* Under the lock, either the process is started or the job is cancelled.  Popen
\* may raise: there is no such interpreter, or no room for another process.
Spawn ==
  /\ pc = "spawn"
  /\ LockFree
  /\ \/ /\ cancelled
        /\ Finally("cancelled")
        /\ UNCHANGED <<ref, main, client, dog>>
     \/ /\ ~cancelled
        /\ Finally("raised")
        /\ ref' = IF Docker THEN "main" ELSE ref
        /\ UNCHANGED <<main, client, dog>>
     \/ /\ ~cancelled
        /\ Goto("wait")
        /\ ref' = "main"
        /\ main' = IF Docker THEN "creating" ELSE "alive"
        /\ client' = IF Docker THEN "alive" ELSE "none"
        /\ dog' = IF watched THEN "watching" ELSE "off"
        /\ UNCHANGED result
  /\ UNCHANGED <<locals, cancelled, canceller, inst, oom, timedOut>>

\* What run() waits for is over.
Over == main \notin {"creating", "alive"}

\* _run_streaming: the process is over, and so is the docker client.
WaitReturns ==
  /\ pc = "wait"
  /\ Over
  /\ client' = IF Docker THEN "dead" ELSE client
  /\ Goto("collect")
  /\ UNCHANGED <<locals, result, cancelled, canceller, ref, inst, main, dog, oom, timedOut>>

\* The wall-clock limit passes.  The process is killed; of a docker job the
\* container, if it has started, and the client.
LimitPasses ==
  /\ pc = "wait"
  /\ ~Over
  /\ timedOut' = TRUE
  /\ Kill
  /\ client' = IF Docker THEN "dead" ELSE client
  /\ Goto("collect")
  /\ UNCHANGED <<locals, result, cancelled, canceller, ref, dog, oom>>

\* What is left of the outcomes once limit and memory have been looked at.
Outcome == IF main = "ok" THEN "ok" ELSE "error"

\* The files are collected; then the first reason that applies is the status.
Collect ==
  /\ pc = "collect"
  /\ dog' = IF dog = "watching" THEN "over" ELSE dog
  /\ \/ timedOut /\ Finally("timeout")
     \/ ~timedOut /\ oom /\ Finally("oom")
     \/ ~timedOut /\ ~oom /\ LockFree /\ Finally(IF cancelled THEN "cancelled" ELSE Outcome)
     \* the kernel's own kill of a container is exit code 137
     \/ Docker /\ ~timedOut /\ LockFree /\ ~cancelled /\ main = "error" /\ Finally("oom")
  /\ UNCHANGED <<locals, cancelled, canceller, ref, processes, oom, timedOut>>

\* The outer finally takes the lock to clear _proc or _container.
Return ==
  /\ pc = "finally"
  /\ LockFree
  /\ ref' = "none"
  /\ Goto("returned")
  /\ UNCHANGED <<locals, result, cancelled, canceller, processes, dog, oom, timedOut>>

----------------------------------------------------------------------------
(* Specification *)

Work ==
  \/ Begin \/ Install \/ InstallReturns \/ InstallCleared \/ InstallChecked
  \/ Publish \/ Spawn \/ WaitReturns \/ Collect \/ Return

Next ==
  \/ Cancel \/ CancelKills \/ DogBites \/ DogKills
  \/ Exits \/ ContainerStarts \/ ContainerDropped
  \/ Work \/ LimitPasses

Spec == Init /\ [][Next]_vars

\* The threads run on.  cancel() may be called again and again, seconds apart, and
\* the worker gets the lock in between.  Neither the job's own end nor its limit is
\* relied on.
Fairness ==
  /\ WF_vars(CancelKills) /\ WF_vars(DogKills)
  /\ WF_vars(Begin \/ InstallChecked \/ Publish \/ WaitReturns)
  /\ SF_vars(Install \/ InstallCleared \/ Spawn \/ Collect \/ Return)
  /\ WF_vars(inst # "alive" /\ InstallReturns)

FairSpec == Spec /\ Fairness

----------------------------------------------------------------------------
(* Properties *)

\* Every variable has its type; what _proc refers to has been started.
TypeOK ==
  /\ backend \in Backends /\ {pip, watched, cancelled, oom, timedOut} \subseteq BOOLEAN
  /\ pc \in {"begin", "install", "installing", "installed", "check", "publish", "spawn",
             "wait", "collect", "finally", "returned"}
  /\ result \in {"none", "ok", "error", "cancelled", "timeout", "oom", "raised"}
  /\ canceller \in {"idle", "kill"}
  /\ ref \in {"none", "inst", "main"}
  /\ inst \in {"none", "alive", "killed", "ok", "error"}
  /\ main \in {"none", "creating", "alive", "killed", "ok", "error"}
  /\ client \in {"none", "alive", "dead"}
  /\ dog \in {"off", "watching", "kill", "over"}
  /\ pc \in {"finally", "returned"} <=> result # "none"

\* Once cancel() has returned, no process of a subprocess job is alive, whether it
\* came before the install, during it, between install and start, or after
\* (sandbox.py:173, 274: the flag is read where the process is started).
CancelledIsStopped ==
  Subprocess /\ cancelled /\ LockFree => inst # "alive" /\ main # "alive"

\* A job whose process was killed is never reported as one that ended by itself:
\* whoever kills says so before (sandbox.py:301-312, 347-349, 387-390).
KillIsReported == inst = "killed" \/ main = "killed" => result \notin {"ok", "error"}

\* A subprocess job leaves no process behind when run() has returned.
NothingLeft == Subprocess /\ result # "none" => inst # "alive" /\ main # "alive"

\* cancel() makes run() of a subprocess job return, whatever the job does and
\* however far its limit is: the agent counts on it for instant reclaim.
CancelReturns == Subprocess /\ cancelled ~> pc = "returned"

\* The events of a job's life that its process, its cancellation and its status show.
Run == INSTANCE JobRun WITH
  instant <- Subprocess,
  process <- IF inst = "alive" \/ main = "alive" THEN "alive"
             ELSE IF main = "creating" THEN "launched" ELSE "none",
  started <- main # "none" \/ client # "none",
  killed <- inst = "killed" \/ main = "killed",
  stop <- IF ~cancelled THEN "no" ELSE IF LockFree THEN "done" ELSE "asked",
  outcome <- result

\* Worker, cancel() and watchdog, each with its own view of a lock, two flags and a
\* process, together do nothing but what one job does: whatever their order, nothing is
\* started after a cancellation, a job that was started and cancelled is never reported
\* as one that ended by itself, and no kill is.
ImplementsJobRun == Run!Spec
=============================================================================
