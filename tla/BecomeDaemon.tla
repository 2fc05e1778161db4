---------------------------- MODULE BecomeDaemon ----------------------------
(***************************************************************************)
(* become_daemon.c: the double fork by which the desktop daemon detaches   *)
(* from whoever started it, and main's answer to what it returns.  The     *)
(* starter is process 0; its child is process 1, and the child of that is  *)
(* process 2.  Parent and child run at the same time after a fork.         *)
(*                                                                         *)
(* pc[p]: absent, not forked yet, or not called become_daemon yet; fork1,  *)
(* setsid, fork2, clear, open, dup1, dup2, the calls of become_daemon;     *)
(* returned, back in main with ret[p]; main, going on as the daemon; _exit *)
(* and exited.                                                             *)
(***************************************************************************)
EXTENDS Integers

CONSTANT MaxFd    \* bound: the highest file descriptor
ASSUME MaxFdAssumption == MaxFd \in Nat /\ MaxFd >= 3

VARIABLES
  pc,        \* by process
  ret,       \* by process: what become_daemon returned, 1 as long as it did not
  attr,      \* by process: what a child inherits, see Attributes
  status     \* by process: its exit status, -1 as long as it has none

vars == <<pc, ret, attr, status>>

Processes == 0 .. 2
Fds == 0 .. MaxFd

Locations == {"absent", "fork1", "setsid", "fork2", "clear", "open", "dup1",
              "dup2", "returned", "main", "_exit", "exited"}

\* session: who created it; leader: of the process group and, from setsid on,
\* of the session; tty: a controlling terminal; detached: umask is 0 and the
\* working directory is the root; fd: what a descriptor refers to.
Attributes == [session  : {"starter", "own"},
               leader   : BOOLEAN,
               tty      : BOOLEAN,
               detached : BOOLEAN,
               fd       : [Fds -> {"closed", "inherited", "null"}]]

\* The starter leads its process group when a shell with job control started
\* it, and any descriptor may be open or closed.
Init ==
  /\ pc = [p \in Processes |-> "absent"]
  /\ ret = [p \in Processes |-> 1]
  /\ status = [p \in Processes |-> -1]
  /\ \E leader, tty \in BOOLEAN, open \in SUBSET Fds :
       attr = [p \in Processes |->
                [session  |-> "starter",
                 leader   |-> leader,
                 tty      |-> tty,
                 detached |-> FALSE,
                 fd       |-> [d \in Fds |-> IF d \in open THEN "inherited"
                                             ELSE "closed"]]]

\* main calls become_daemon.
Call ==
  /\ pc[0] = "absent"
  /\ pc' = [pc EXCEPT ![0] = "fork1"]
  /\ UNCHANGED <<ret, attr, status>>

\* become_daemon returns value to main.
Return(p, value) ==
  /\ pc' = [pc EXCEPT ![p] = "returned"]
  /\ ret' = [ret EXCEPT ![p] = value]

\* Mutant: the parent goes on as well.
ForkBoth(p, there) ==
  /\ pc' = [pc EXCEPT ![p] = there, ![p + 1] = there]
  /\ attr' = [attr EXCEPT ![p + 1] = [attr[p] EXCEPT !.leader = FALSE]]
  /\ UNCHANGED <<ret, status>>

\* The child goes on, with what its parent has but for its leadership.
Fork(p, there) ==
  /\ pc' = [pc EXCEPT ![p] = "_exit", ![p + 1] = there]
  /\ attr' = [attr EXCEPT ![p + 1] = [attr[p] EXCEPT !.leader = FALSE]]
  /\ UNCHANGED <<ret, status>>

ForkFails(p, code) == Return(p, code) /\ UNCHANGED <<attr, status>>

Fork1(p) ==
  /\ pc[p] = "fork1"
  /\ Fork(p, "setsid") \/ ForkFails(p, -1)

\* setsid refuses a process that leads its group.
Setsid(p) ==
  /\ pc[p] = "setsid"
  /\ IF attr[p].leader
     THEN Return(p, -2) /\ UNCHANGED attr
     ELSE /\ attr' = [attr EXCEPT ![p].session = "own", ![p].leader = TRUE,
                                  ![p].tty = FALSE]
          /\ pc' = [pc EXCEPT ![p] = "fork2"] /\ UNCHANGED ret
  /\ UNCHANGED status

Fork2(p) ==
  /\ pc[p] = "fork2"
  /\ Fork(p, "clear") \/ ForkFails(p, -3)

\* Mutant: only the standard descriptors are closed.
ClosedStandard(fd) == [d \in Fds |-> IF d <= 2 THEN "closed" ELSE fd[d]]

\* closefrom(0).
Closed(fd) == [d \in Fds |-> "closed"]

\* umask, chdir to the root, which is always there, and closefrom.
Clear(p) ==
  /\ pc[p] = "clear"
  /\ attr' = [attr EXCEPT ![p].detached = TRUE, ![p].fd = Closed(@)]
  /\ pc' = [pc EXCEPT ![p] = "open"]
  /\ UNCHANGED <<ret, status>>

LowestFree(fd) ==
  CHOOSE d \in Fds : fd[d] = "closed" /\ \A e \in 0 .. d - 1 : fd[e] # "closed"

\* open and dup return the lowest descriptor that is free, or fail; the code
\* wants it to be the expected one.
Opens(p, here, expected, there, code) ==
  /\ pc[p] = here
  /\ \/ LET d == LowestFree(attr[p].fd)
        IN  /\ attr' = [attr EXCEPT ![p].fd[d] = "null"]
            /\ IF d = expected
               THEN pc' = [pc EXCEPT ![p] = there] /\ UNCHANGED ret
               ELSE Return(p, code)
     \/ Return(p, code) /\ UNCHANGED attr
  /\ UNCHANGED status

Open(p) == Opens(p, "open", 0, "dup1", -4)
Dup1(p) == Opens(p, "dup1", 1, "dup2", -5)

\* Mutant: what dup returned is returned.
Dup2Descriptor(d) == IF d = 2 THEN d ELSE -6

Dup2Returns(d) == IF d = 2 THEN 0 ELSE -6

\* The last call, after which become_daemon returns 0.
Dup2(p) ==
  /\ pc[p] = "dup2"
  /\ \/ LET d == LowestFree(attr[p].fd)
        IN  /\ attr' = [attr EXCEPT ![p].fd[d] = "null"]
            /\ Return(p, Dup2Returns(d))
     \/ Return(p, -6) /\ UNCHANGED attr
  /\ UNCHANGED status

\* Mutant: main takes a failure for the daemon.
MainGoesOn(value) == TRUE

\* main's check of daemon.
MainAccepts(value) == value = 0

MainContinues(p) ==
  /\ pc[p] = "returned"
  /\ MainAccepts(ret[p])
  /\ pc' = [pc EXCEPT ![p] = "main"]
  /\ UNCHANGED <<ret, attr, status>>

ExitWith(p, value) ==
  /\ pc' = [pc EXCEPT ![p] = "exited"]
  /\ status' = [status EXCEPT ![p] = value]
  /\ UNCHANGED <<ret, attr>>

\* main returns EXIT_FAILURE.
MainRefuses(p) ==
  /\ pc[p] = "returned" /\ ~MainAccepts(ret[p])
  /\ ExitWith(p, 1)

\* _exit(EXIT_SUCCESS) of a parent.
ParentExits(p) == pc[p] = "_exit" /\ ExitWith(p, 0)

Step(p) ==
  \/ Fork1(p) \/ Setsid(p) \/ Fork2(p) \/ Clear(p) \/ Open(p) \/ Dup1(p)
  \/ Dup2(p) \/ MainContinues(p) \/ MainRefuses(p) \/ ParentExits(p)

Next == Call \/ \E p \in Processes : Step(p)

Spec == Init /\ [][Next]_vars

-----------------------------------------------------------------------------
TypeOK ==
  /\ pc \in [Processes -> Locations]
  /\ ret \in [Processes -> -6 .. 1]
  /\ attr \in [Processes -> Attributes]
  /\ status \in [Processes -> {-1, 0, 1}]

\* become_daemon.c:22, :27, :45 and :49: the process that goes on as the
\* daemon has left the starter's session, cannot acquire a terminal, and has
\* the null device for its three standard descriptors and nothing else open,
\* whatever the starter had.
DaemonDetached ==
  \A p \in Processes : pc[p] = "main" =>
    /\ attr[p].session = "own" /\ ~attr[p].leader /\ ~attr[p].tty
    /\ attr[p].detached
    /\ \A d \in Fds : attr[p].fd[d] = IF d <= 2 THEN "null" ELSE "closed"

\* Processes run at the same time after a fork, but only one of them is
\* inside become_daemon, in main behind it or serving: two would connect with
\* the same device identity.
OneGoesOn ==
  \A p, q \in Processes :
    p # q => pc[p] \in {"absent", "_exit", "exited"}
             \/ pc[q] \in {"absent", "_exit", "exited"}

\* become_daemon.h:8-13: the second failure of the list is there for nothing,
\* setsid is only called by a child, which leads no process group.
SetsidSucceeds == \A p \in Processes : ret[p] # -2

=============================================================================
