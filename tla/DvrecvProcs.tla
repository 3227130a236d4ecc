----------------------------- MODULE DvrecvProcs ----------------------------
(***************************************************************************)
(* The life of dvrecv's two processes and of the shared memory between     *)
(* them (dvrecv/main.c, shm.c, sig-behavior.c): start-up, fork, the two    *)
(* loops, the ways each process ends and what it does to the other one.    *)
(* The memory segments and the process table are the kernel's.             *)
(***************************************************************************)
EXTENDS Naturals

CONSTANTS Failures,  \* what can go wrong: of Failure, below
          Signals    \* what the user may do: of {"terminal", "parent", "child"}

Failure == {"socket", "shmget", "fork", "device", "attach parent", "attach child",
            "read", "write"}

ASSUME FailuresAssumption == Failures \subseteq Failure
ASSUME SignalsAssumption  == Signals \subseteq {"terminal", "parent", "child"}

Proc == {"parent", "child"}
Seg  == {"video", "audio"}

VARIABLES
  pc,          \* of each process
  ids,         \* are video_shmid and audio_shmid known?
  readPid,     \* read_loop_pid in the parent: "child", or "all" for -1
  segs, att,   \* kernel: the segments; which processes have attached each
  marked,      \* kernel: segments to be removed when nobody has them any more
  pending,     \* kernel: processes with a signal to handle
  recycled,    \* kernel: does the parent's pid belong to a stranger by now?
  strangers,   \* kernel: are the user's other processes alive?
  interrupted, \* history: processes whose handler has run
  deserted,    \* history: has the child returned without a kill?
  target       \* whom the user signals, chosen once
kernel == <<segs, att, marked>>
signal == <<pending, interrupted>>
others == <<recycled, strangers, deserted, target>>
vars   == <<pc, ids, readPid, kernel, signal, others>>

Init == /\ pc = [p \in Proc |-> IF p = "parent" THEN "socket" ELSE "none"]
        /\ ids = FALSE /\ readPid = "unset"
        /\ segs = {} /\ att = [s \in Seg |-> {}] /\ marked = {}
        /\ pending = {} /\ interrupted = {}
        /\ recycled = FALSE /\ strangers = TRUE /\ deserted = FALSE
        /\ target \in Signals

Alive(p) == pc[p] \notin {"none", "gone"}
At(p, l) == pc[p] = l /\ p \notin pending   \* a signal is handled first
Goto(p, l) == pc' = [pc EXCEPT ![p] = l]
-----------------------------------------------------------------------------
(* What the kernel does when the processes in P end. *)
End(P, goto) ==
  /\ pc' = [p \in Proc |-> IF p \in P /\ Alive(p) THEN "gone" ELSE goto[p]]
  /\ att' = [s \in Seg |-> att[s] \ P]
  /\ LET free == {s \in marked : att'[s] = {}}
     IN  segs' = segs \ free /\ marked' = marked \ free
  /\ pending' = pending \ P

(* shmctl(IPC_RMID) of the segments in S. *)
Remove(S) == /\ segs' = {s \in segs : s \in S => att[s] # {}}
             /\ marked' = marked \cup {s \in S \cap segs : att[s] # {}}

(* return(1) from main *)
Exit(p) == /\ At(p, "exit")
           /\ End({p}, pc)
           /\ UNCHANGED <<ids, readPid, interrupted, others>>
-----------------------------------------------------------------------------
(* main up to the fork, by the only process there is. *)

PrepareSocket ==
  /\ At("parent", "socket")
  /\ \/ Goto("parent", "shmget video")
     \/ "socket" \in Failures /\ Goto("parent", "exit")
  /\ UNCHANGED <<ids, readPid, kernel, signal, others>>

(* prepare_shared_memory: the ids are kept once both segments exist. *)
Shmget(s, next) ==
  /\ At("parent", IF s = "video" THEN "shmget video" ELSE "shmget audio")
  /\ \/ segs' = segs \cup {s} /\ Goto("parent", next)
     \/ "shmget" \in Failures /\ segs' = segs /\ Goto("parent", "exit")
  /\ UNCHANGED <<ids, readPid, att, marked, signal, others>>

RememberIds ==
  /\ At("parent", "remember")
  /\ ids' = TRUE /\ Goto("parent", "fork")
  /\ UNCHANGED <<readPid, kernel, signal, others>>

BadFork ==   \* leaves read_loop_pid to the child
  /\ At("parent", "fork")
  /\ pc' = [p \in Proc |-> IF p = "parent" THEN "device" ELSE "attach video"]
  /\ UNCHANGED <<ids, readPid, kernel, signal, others>>

(* The result of fork is compared with 0 only. *)
Fork ==
  /\ At("parent", "fork")
  /\ \/ /\ pc' = [p \in Proc |-> IF p = "parent" THEN "device" ELSE "attach video"]
        /\ readPid' = "child"
     \/ /\ "fork" \in Failures
        /\ Goto("parent", "device") /\ readPid' = "all"
  /\ UNCHANGED <<ids, kernel, signal, others>>
-----------------------------------------------------------------------------
(* After the fork *)

PrepareIeee1394 ==
  /\ At("parent", "device")
  /\ \/ Goto("parent", "attach video")
     \/ "device" \in Failures /\ Goto("parent", "kill")
  /\ UNCHANGED <<ids, readPid, kernel, signal, others>>

(* attach_shared_memory; a segment that is gone cannot be attached.  On
   failure the child just returns. *)
Attach(p, s, next) ==
  /\ At(p, IF s = "video" THEN "attach video" ELSE "attach audio")
  /\ \/ /\ s \in segs
        /\ att' = [att EXCEPT ![s] = @ \cup {p}] /\ Goto(p, next)
        /\ UNCHANGED deserted
     \/ /\ \/ s \notin segs
           \/ (IF p = "parent" THEN "attach parent" ELSE "attach child") \in Failures
        /\ att' = att
        /\ Goto(p, IF p = "parent" THEN "kill" ELSE "exit")
        /\ deserted' = (deserted \/ p = "child")
  /\ UNCHANGED <<ids, readPid, segs, marked, signal, recycled, strangers, target>>

(* The loops return when a system call fails. *)
BadLoopEnds(p) ==
  /\ At(p, "loop")
  /\ (IF p = "parent" THEN "write" ELSE "read") \in Failures
  /\ Goto(p, "exit")
  /\ UNCHANGED <<ids, readPid, kernel, signal, others>>
LoopEnds(p) ==
  /\ At(p, "loop")
  /\ (IF p = "parent" THEN "write" ELSE "read") \in Failures
  /\ Goto(p, "kill")
  /\ UNCHANGED <<ids, readPid, kernel, signal, others>>

(* kill(the pid of the other process, SIGKILL).  The child goes by the pid its
   parent had; kill(-1) is for every process but the caller, and kill(0) for
   the process group. *)
Kill(p) ==
  /\ At(p, "kill")
  /\ LET other == IF p = "parent" THEN "child" ELSE "parent"
         all   == p = "parent" /\ readPid # "child"
     IN  /\ End({other}, [pc EXCEPT ![p] = "exit"])
         /\ strangers' = (strangers /\ ~all /\ ~(p = "child" /\ recycled))
  /\ UNCHANGED <<ids, readPid, recycled, interrupted, deserted, target>>

Work(p) == \/ Exit(p)
            \/ Attach(p, "video", "attach audio") \/ Attach(p, "audio", "loop")
            \/ LoopEnds(p) \/ Kill(p)
-----------------------------------------------------------------------------
(* Signals *)

(* Ctrl-C goes to every process of the terminal, kill(1) to one of them.
   set_signal_behavior has run before all else. *)
Signal == /\ LET P == {p \in Proc : Alive(p) /\ target \in {"terminal", p}}
             IN  ~(P \subseteq pending) /\ pending' = pending \cup P
          /\ UNCHANGED <<pc, ids, readPid, kernel, interrupted, others>>

(* _sigint: remove the segments, if there are ids to go by, ...  Before, shmctl is
   called with the ids still 0, and whether the user has a segment with that
   identifier, which would go, is outside the model. *)
BadHandle(p) ==   \* removes the video segment only
  /\ p \in pending /\ pc[p] # "handled"
  /\ IF ids THEN Remove({"video"}) ELSE UNCHANGED <<segs, marked>>
  /\ interrupted' = interrupted \cup {p}
  /\ Goto(p, "handled")
  /\ UNCHANGED <<ids, readPid, att, pending, others>>
Handle(p) ==
  /\ p \in pending /\ pc[p] # "handled"
  /\ IF ids THEN Remove(Seg) ELSE UNCHANGED <<segs, marked>>
  /\ interrupted' = interrupted \cup {p}
  /\ Goto(p, "handled")
  /\ UNCHANGED <<ids, readPid, att, pending, others>>

(* ... and exit(0). *)
HandlerExit(p) == /\ p \in pending /\ pc[p] = "handled"
                  /\ End({p}, pc)
                  /\ UNCHANGED <<ids, readPid, interrupted, others>>

(* Once the shell has reaped the parent, its pid is free. *)
Recycle == /\ pc["parent"] = "gone" /\ ~recycled
           /\ recycled' = TRUE
           /\ UNCHANGED <<pc, ids, readPid, kernel, signal, strangers, deserted, target>>
-----------------------------------------------------------------------------
Run(p) == Work(p) \/ Handle(p) \/ HandlerExit(p)
Start  == \/ PrepareSocket
          \/ Shmget("video", "shmget audio") \/ Shmget("audio", "remember")
          \/ RememberIds \/ Fork \/ PrepareIeee1394

Next == Start \/ (\E p \in Proc : Run(p)) \/ Signal \/ Recycle

(* The kernel schedules every process; a loop need not ever end, but a process
   that can do anything else does. *)
Progress(p) == Run(p) /\ ~LoopEnds(p)
Spec == Init /\ [][Next]_vars /\ WF_vars(Start) /\ \A p \in Proc : WF_vars(Progress(p))
-----------------------------------------------------------------------------
Pc == {"none", "socket", "shmget video", "shmget audio", "remember", "fork",
       "device", "attach video", "attach audio", "loop", "kill", "exit",
       "handled", "gone"}

TypeOK == /\ pc \in [Proc -> Pc] /\ ids \in BOOLEAN
          /\ readPid \in {"unset", "child", "all"}
          /\ segs \subseteq Seg /\ att \in [Seg -> SUBSET Proc] /\ marked \subseteq segs
          /\ pending \subseteq Proc /\ interrupted \subseteq Proc
          /\ {recycled, strangers, deserted} \subseteq BOOLEAN
          /\ target \in Signals

Gone == pc["parent"] = "gone" /\ ~Alive("child")

(* Ctrl-C leaves nothing behind, whatever each process was doing and whoever
   runs its handler first, once the ids are known: both end, and the segments,
   which nothing else removes, go with the last of them. *)
InterruptCleans == ids /\ pending = {p \in Proc : Alive(p)} /\ pending # {}
                     ~> Gone /\ segs = {}

(* main.c:278, 291, 301, 309: "kill the other process", and no more.  It is so
   as long as there is another process: not after a fork that failed, nor when
   the parent alone was interrupted and its pid is another's by now. *)
KillsOther == readPid # "all" /\ target # "parent" => strangers

(* ... and after a fork that failed? *)
KillsOnlyOther == target # "parent" => strangers

(* The two processes end together: when one is gone, by whatever failure or by
   Ctrl-C, so is the other one soon, unless it is the child that could not
   attach, which leaves the parent alone. *)
NeverAlone ==
  target = "terminal" /\ ~deserted /\ (\E p \in Proc : pc[p] = "gone") ~> Gone
=============================================================================
