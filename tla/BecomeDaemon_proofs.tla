------------------------- MODULE BecomeDaemon_proofs -------------------------
(***************************************************************************)
(* BecomeDaemon, proved for every number of descriptors, whichever of them *)
(* were open: the process that goes on is detached, it is the only one,    *)
(* setsid cannot fail, and a failure is told by exactly one process.  The  *)
(* inductive invariant says of each location which process is there and    *)
(* what it has left behind so far.  It is invariant in DesktopStart too,   *)
(* which moves the processes by no other steps, and the theorems are about *)
(* main as a whole.  The last of them are about its command line, for any  *)
(* number of items, and when it leads to a fork.                           *)
(***************************************************************************)
EXTENDS DesktopStart, TLAPS

USE MaxFdAssumption

\* The first k descriptors are the null device, the others are closed.
Nulls(k) == [d \in Fds |-> IF d < k THEN "null" ELSE "closed"]

\* In a session of its own, which it does not lead.
Apart(p) == attr[p].session = "own" /\ ~attr[p].leader /\ ~attr[p].tty

Detached(p, k) == Apart(p) /\ attr[p].detached /\ attr[p].fd = Nulls(k)

\* What holds of a process by where it is.
Progress(p) ==
  /\ pc[p] = "fork1" => p = 0
  /\ pc[p] = "setsid" => p = 1 /\ ~attr[p].leader
  /\ pc[p] = "fork2" => p = 1 /\ attr[p].session = "own" /\ ~attr[p].tty
  /\ pc[p] = "clear" => Apart(p)
  /\ pc[p] = "open" => Detached(p, 0)
  /\ pc[p] = "dup1" => Detached(p, 1)
  /\ pc[p] = "dup2" => Detached(p, 2)
  /\ pc[p] = "returned" /\ ret[p] = 0 => Detached(p, 3)
  /\ pc[p] = "main" => Detached(p, 3)
  /\ ret[p] # -2

\* Before the call there is only the starter.
NotCalled == pc[0] = "absent" => \A p \in Processes : pc[p] = "absent"

DaemonInv ==
  /\ TypeOK
  /\ OneGoesOn
  /\ NotCalled
  /\ \A p \in Processes : Progress(p)

Waiting == {"absent", "_exit", "exited"}

\* With the first k descriptors taken, open and dup return k.
LEMMA LowestFreeIs ==
  ASSUME NEW k \in 0 .. 2
  PROVE  LowestFree(Nulls(k)) = k
<1>1. k \in Fds /\ Nulls(k)[k] = "closed"
  BY DEF Fds, Nulls
<1>2. \A e \in 0 .. k - 1 : Nulls(k)[e] # "closed"
  BY DEF Fds, Nulls
<1>3. ASSUME NEW d \in Fds, Nulls(k)[d] = "closed",
             \A e \in 0 .. d - 1 : Nulls(k)[e] # "closed"
      PROVE  d = k
  <2>1. ~(d < k)
    BY <1>3 DEF Nulls
  <2>2. ~(k < d)
    BY <1>1, <1>3 DEF Fds
  <2> QED BY <2>1, <2>2 DEF Fds
<1> QED BY <1>1, <1>2, <1>3 DEF LowestFree

\* Taking that descriptor.
LEMMA NextNull ==
  ASSUME NEW k \in 0 .. 2
  PROVE  [Nulls(k) EXCEPT ![k] = "null"] = Nulls(k + 1)
<1> DEFINE taken == [Nulls(k) EXCEPT ![k] = "null"]
<1>1. taken = [d \in Fds |-> IF d = k THEN "null" ELSE Nulls(k)[d]]
  BY DEF Nulls
<1>2. ASSUME NEW d \in Fds
      PROVE  (IF d = k THEN "null" ELSE Nulls(k)[d])
               = (IF d < k + 1 THEN "null" ELSE "closed")
  BY DEF Nulls, Fds
<1> QED BY <1>1, <1>2 DEF Nulls

LEMMA InitInv == Init => DaemonInv
<1> SUFFICES ASSUME Init
             PROVE  DaemonInv
  OBVIOUS
<1>1. pc = [p \in Processes |-> "absent"]
  BY DEF Init
<1>2. ret = [p \in Processes |-> 1] /\ status = [p \in Processes |-> -1]
  BY DEF Init
<1>3. attr \in [Processes -> Attributes]
  <2>1. PICK leader, tty \in BOOLEAN, open \in SUBSET Fds :
          attr = [p \in Processes |->
                   [session  |-> "starter",
                    leader   |-> leader,
                    tty      |-> tty,
                    detached |-> FALSE,
                    fd       |-> [d \in Fds |-> IF d \in open THEN "inherited"
                                                ELSE "closed"]]]
    BY DEF Init
  <2> QED BY <2>1 DEF Attributes
<1>4. TypeOK
  BY <1>1, <1>2, <1>3 DEF TypeOK, Locations
<1>5. OneGoesOn
  BY <1>1 DEF OneGoesOn, Processes
<1>6. \A p \in Processes : Progress(p)
  BY <1>1, <1>2 DEF Progress
<1>7. NotCalled
  BY <1>1 DEF NotCalled
<1> QED BY <1>4, <1>5, <1>6, <1>7 DEF DaemonInv

\* A fork hands the going on to the child: where the child goes, and that what
\* it inherits is enough there, is left to the caller.
LEMMA ForkKeeps ==
  ASSUME DaemonInv, NEW p \in 0 .. 1, NEW there \in {"setsid", "clear"},
         Fork(p, there), pc[p] \notin Waiting, Progress(p + 1)'
  PROVE  DaemonInv'
<1>1. p \in Processes /\ p + 1 \in Processes /\ p # p + 1
  BY DEF Processes
<1>2. attr' = [attr EXCEPT ![p + 1] = [attr[p] EXCEPT !.leader = FALSE]]
  BY DEF Fork
<1>3. [attr[p] EXCEPT !.leader = FALSE] \in Attributes
  BY <1>1 DEF DaemonInv, TypeOK, Attributes
<1>4. TypeOK'
  BY <1>1, <1>2, <1>3 DEF DaemonInv, TypeOK, Fork, Locations
<1>5. OneGoesOn'
  <2> SUFFICES ASSUME NEW q \in Processes, NEW r \in Processes, q # r,
                      pc'[q] \notin Waiting, pc'[r] \notin Waiting
               PROVE  FALSE
    BY DEF OneGoesOn, Waiting
  <2>1. \A s \in Processes : s # p => pc[s] \in Waiting
    BY <1>1 DEF DaemonInv, OneGoesOn, Waiting
  <2>2. \A s \in Processes : s # p + 1 => pc'[s] \in Waiting
    BY <1>1, <2>1 DEF Fork, Waiting, DaemonInv, TypeOK
  <2> QED BY <2>2
<1>6. ASSUME NEW q \in Processes
      PROVE  Progress(q)'
  <2>1. CASE q = p + 1
    BY <2>1
  <2>2. CASE q = p
    BY <1>1, <2>2 DEF Progress, Fork, DaemonInv, TypeOK
  <2>3. CASE q # p /\ q # p + 1
    <3>1. pc'[q] = pc[q] /\ attr'[q] = attr[q] /\ ret'[q] = ret[q]
      BY <1>1, <1>2, <2>3 DEF Fork, DaemonInv, TypeOK
    <3> QED BY <3>1 DEF DaemonInv, Progress, Apart, Detached
  <2> QED BY <2>1, <2>2, <2>3
<1>7. NotCalled'
  <2>1. 0 \in Processes /\ pc[0] # "absent"
    BY <1>1 DEF DaemonInv, NotCalled, Waiting, Processes
  <2>2. pc'[0] # "absent"
    BY <1>1, <2>1 DEF Fork, DaemonInv, TypeOK
  <2> QED BY <2>2 DEF NotCalled
<1> QED BY <1>4, <1>5, <1>6, <1>7 DEF DaemonInv

\* Every other step moves one process that goes on already.
LEMMA MoveKeeps ==
  ASSUME DaemonInv, NEW p \in Processes, pc[p] \notin Waiting,
         NEW there \in Locations \ {"absent"}, pc' = [pc EXCEPT ![p] = there],
         \/ ret' = ret
         \/ \E value \in -6 .. 0 : ret' = [ret EXCEPT ![p] = value],
         \/ attr' = attr
         \/ \E a \in Attributes : attr' = [attr EXCEPT ![p] = a],
         \/ status' = status
         \/ \E value \in {0, 1} : status' = [status EXCEPT ![p] = value],
         Progress(p)'
  PROVE  DaemonInv'
<1>1. TypeOK'
  <2>1. pc' \in [Processes -> Locations]
    BY DEF DaemonInv, TypeOK
  <2>2. ret' \in [Processes -> -6 .. 1]
    BY DEF DaemonInv, TypeOK
  <2>3. attr' \in [Processes -> Attributes]
    BY DEF DaemonInv, TypeOK
  <2>4. status' \in [Processes -> {-1, 0, 1}]
    BY DEF DaemonInv, TypeOK
  <2> QED BY <2>1, <2>2, <2>3, <2>4 DEF TypeOK
<1>2. OneGoesOn'
  BY DEF DaemonInv, OneGoesOn, Waiting, TypeOK
<1>3. ASSUME NEW q \in Processes, q # p
      PROVE  Progress(q)'
  <2>1. pc'[q] = pc[q] /\ attr'[q] = attr[q] /\ ret'[q] = ret[q]
    BY <1>3 DEF DaemonInv, TypeOK
  <2> QED BY <1>3, <2>1 DEF DaemonInv, Progress, Apart, Detached
<1>4. NotCalled'
  <2>1. 0 \in Processes /\ pc[0] # "absent"
    BY DEF DaemonInv, NotCalled, Waiting, Processes
  <2>2. pc'[0] # "absent"
    BY <2>1 DEF DaemonInv, TypeOK
  <2> QED BY <2>2 DEF NotCalled
<1> QED BY <1>1, <1>2, <1>3, <1>4 DEF DaemonInv

\* A call of become_daemon that returns value: a failure, or the end.
LEMMA ReturnKeeps ==
  ASSUME DaemonInv, NEW p \in Processes, pc[p] \notin Waiting,
         NEW value \in -6 .. -1, value # -2,
         Return(p, value),
         \/ attr' = attr
         \/ \E a \in Attributes : attr' = [attr EXCEPT ![p] = a],
         UNCHANGED status
  PROVE  DaemonInv'
<1>1. pc' = [pc EXCEPT ![p] = "returned"] /\ ret' = [ret EXCEPT ![p] = value]
  BY DEF Return
<1>2. pc'[p] = "returned" /\ ret'[p] = value
  BY <1>1 DEF DaemonInv, TypeOK
<1>3. Progress(p)'
  BY <1>2 DEF Progress
<1>4. "returned" \in Locations /\ value \in -6 .. 0
  BY DEF Locations
<1> QED BY <1>1, <1>3, <1>4, MoveKeeps

\* open and the first dup.
LEMMA OpensKeeps ==
  ASSUME DaemonInv, NEW p \in Processes, NEW k \in 0 .. 1,
         NEW here, NEW there \in Locations \ {"absent"}, NEW code \in -6 .. -3,
         Opens(p, here, k, there, code), here \notin Waiting,
         pc[p] = here => Detached(p, k),
         pc'[p] = there /\ ret' = ret /\ Detached(p, k + 1)' => Progress(p)'
  PROVE  DaemonInv'
<1>1. pc[p] \notin Waiting /\ Detached(p, k)
  BY DEF Opens
<1>2. LowestFree(attr[p].fd) = k
  BY <1>1, LowestFreeIs DEF Detached
<1>3. CASE attr' = [attr EXCEPT ![p].fd[k] = "null"]
           /\ pc' = [pc EXCEPT ![p] = there] /\ UNCHANGED ret
  <2> DEFINE a == [attr[p] EXCEPT !.fd = [@ EXCEPT ![k] = "null"]]
  <2>1. attr' = [attr EXCEPT ![p] = a]
    BY <1>3
  <2>2. attr[p] \in Attributes
    BY DEF DaemonInv, TypeOK
  <2>3. a.fd = Nulls(k + 1)
    BY <1>1, <2>2, NextNull DEF Detached, Attributes
  <2>4. Nulls(k + 1) \in [Fds -> {"closed", "inherited", "null"}]
    BY DEF Nulls
  <2>5. a \in Attributes
    BY <2>2, <2>3, <2>4 DEF Attributes
  <2>6. attr'[p] = a
    BY <2>1 DEF DaemonInv, TypeOK
  <2>7. Detached(p, k + 1)'
    BY <1>1, <2>2, <2>3, <2>6 DEF Detached, Apart, Attributes
  <2>8. pc'[p] = there
    BY <1>3 DEF DaemonInv, TypeOK
  <2>9. status' = status
    BY DEF Opens
  <2> QED BY <1>1, <1>3, <2>1, <2>5, <2>7, <2>8, <2>9, MoveKeeps
<1>4. CASE Return(p, code) /\ UNCHANGED attr
  BY <1>1, <1>4, ReturnKeeps DEF Opens
<1> QED BY <1>2, <1>3, <1>4 DEF Opens

LEMMA StepInv ==
  ASSUME DaemonInv, NEW p \in Processes, Step(p)
  PROVE  DaemonInv'
<1> USE DEF Waiting
<1>0. /\ Progress(p)
      /\ attr[p] \in Attributes
      /\ \A value \in Locations : [pc EXCEPT ![p] = value][p] = value
      /\ \A a \in Attributes : [attr EXCEPT ![p] = a][p] = a
  BY DEF DaemonInv, TypeOK
<1>1. CASE Fork1(p)
  <2>1. p = 0 /\ p \in 0 .. 1 /\ p + 1 = 1 /\ 1 \in Processes
    BY <1>0, <1>1 DEF Fork1, Progress, Processes
  <2>2. CASE Fork(p, "setsid")
    <3>1. pc'[1] = "setsid" /\ ~attr'[1].leader /\ ret'[1] # -2
      BY <1>0, <2>1, <2>2 DEF Fork, DaemonInv, TypeOK, Progress, Attributes
    <3>2. Progress(p + 1)'
      BY <2>1, <3>1 DEF Progress
    <3> QED BY <1>1, <2>1, <2>2, <3>2, ForkKeeps DEF Fork1
  <2>3. CASE ForkFails(p, -1)
    BY <1>1, <2>3, ReturnKeeps DEF Fork1, ForkFails
  <2> QED BY <1>1, <2>2, <2>3 DEF Fork1
<1>2. CASE Setsid(p)
  <2>1. p = 1 /\ ~attr[p].leader
    BY <1>0, <1>2 DEF Setsid, Progress
  <2> DEFINE a == [attr[p] EXCEPT !.session = "own", !.leader = TRUE,
                                  !.tty = FALSE]
  <2>2. /\ attr' = [attr EXCEPT ![p] = a]
        /\ pc' = [pc EXCEPT ![p] = "fork2"]
        /\ ret' = ret /\ status' = status
    <3>1. attr' = [attr EXCEPT ![p].session = "own", ![p].leader = TRUE,
                               ![p].tty = FALSE]
      BY <1>2, <2>1 DEF Setsid
    <3>2. attr' = [attr EXCEPT ![p] = a]
      BY <1>0, <3>1 DEF DaemonInv, TypeOK, Attributes
    <3> QED BY <1>2, <2>1, <3>2 DEF Setsid
  <2>3. a \in Attributes /\ a.session = "own" /\ ~a.tty
    BY <1>0 DEF Attributes
  <2>4. Progress(p)'
    <3>1. pc'[p] = "fork2" /\ attr'[p] = a /\ ret'[p] # -2
      BY <1>0, <2>2, <2>3 DEF Locations, Progress
    <3> QED BY <2>1, <2>3, <3>1 DEF Progress
  <2>5. "fork2" \in Locations /\ pc[p] \notin Waiting
    BY <1>2 DEF Locations, Setsid
  <2> QED BY <2>2, <2>3, <2>4, <2>5, MoveKeeps
<1>3. CASE Fork2(p)
  <2>1. p = 1 /\ p \in 0 .. 1 /\ p + 1 = 2 /\ 2 \in Processes
    BY <1>0, <1>3 DEF Fork2, Progress, Processes
  <2>2. attr[p].session = "own" /\ ~attr[p].tty
    BY <1>0, <1>3 DEF Fork2, Progress
  <2>3. CASE Fork(p, "clear")
    <3>1. pc'[2] = "clear" /\ ret'[2] # -2
      BY <1>0, <2>1, <2>3 DEF Fork, DaemonInv, TypeOK, Progress
    <3>2. attr'[2] = [attr[p] EXCEPT !.leader = FALSE]
      BY <2>1, <2>3 DEF Fork, DaemonInv, TypeOK
    <3>3. Apart(2)'
      BY <1>0, <2>2, <3>2 DEF Apart, Attributes
    <3>4. Progress(p + 1)'
      BY <2>1, <3>1, <3>3 DEF Progress
    <3> QED BY <1>3, <2>1, <2>3, <3>4, ForkKeeps DEF Fork2
  <2>4. CASE ForkFails(p, -3)
    BY <1>3, <2>4, ReturnKeeps DEF Fork2, ForkFails
  <2> QED BY <1>3, <2>3, <2>4 DEF Fork2
<1>4. CASE Clear(p)
  <2>1. Apart(p)
    BY <1>0, <1>4 DEF Clear, Progress
  <2> DEFINE a == [attr[p] EXCEPT !.detached = TRUE, !.fd = Nulls(0)]
  <2>2. Closed(attr[p].fd) = Nulls(0)
    BY DEF Closed, Nulls, Fds
  <2>3. attr' = [attr EXCEPT ![p] = a]
    BY <1>0, <1>4, <2>2 DEF Clear, DaemonInv, TypeOK, Attributes
  <2>4. a \in Attributes /\ a.detached /\ a.fd = Nulls(0)
        /\ a.session = "own" /\ ~a.leader /\ ~a.tty
    BY <1>0, <2>1 DEF Attributes, Apart, Nulls
  <2> HIDE DEF a
  <2>5. pc'[p] = "open" /\ attr'[p] = a /\ ret'[p] # -2
    <3>1. attr'[p] = a
      BY <1>0, <2>3, <2>4
    <3> QED BY <1>0, <1>4, <3>1 DEF Clear, Locations, Progress
  <2>6. Progress(p)'
    BY <2>4, <2>5 DEF Progress, Detached, Apart
  <2>7. "open" \in Locations /\ pc[p] \notin Waiting
    BY <1>4 DEF Locations, Clear
  <2> QED BY <1>4, <2>3, <2>4, <2>6, <2>7, MoveKeeps DEF Clear
<1>5. CASE Open(p)
  <2>1. pc'[p] = "dup1" /\ ret' = ret /\ Detached(p, 1)' => Progress(p)'
    BY <1>0 DEF Progress
  <2> QED BY <1>0, <1>5, <2>1, OpensKeeps DEF Open, Progress, Locations
<1>6. CASE Dup1(p)
  <2>1. pc'[p] = "dup2" /\ ret' = ret /\ Detached(p, 2)' => Progress(p)'
    BY <1>0 DEF Progress
  <2> QED BY <1>0, <1>6, <2>1, OpensKeeps DEF Dup1, Progress, Locations
<1>7. CASE Dup2(p)
  <2>1. Detached(p, 2) /\ LowestFree(attr[p].fd) = 2
    BY <1>0, <1>7, LowestFreeIs DEF Dup2, Progress, Detached
  <2>2. CASE attr' = [attr EXCEPT ![p].fd[2] = "null"] /\ Return(p, 0)
    <3> DEFINE a == [attr[p] EXCEPT !.fd = [@ EXCEPT ![2] = "null"]]
    <3>1. attr' = [attr EXCEPT ![p] = a]
      BY <2>2
    <3>2. a.fd = Nulls(3)
      BY <1>0, <2>1, NextNull DEF Detached, Attributes
    <3>3. a \in Attributes
      BY <1>0, <3>2 DEF Attributes, Nulls
    <3>4. Detached(p, 3)'
      BY <1>0, <2>1, <3>1, <3>2, <3>3 DEF Detached, Apart, Attributes
    <3>5. pc'[p] = "returned" /\ ret'[p] = 0
      BY <2>2 DEF Return, DaemonInv, TypeOK
    <3>6. Progress(p)'
      BY <3>4, <3>5 DEF Progress
    <3>7. "returned" \in Locations /\ pc[p] \notin Waiting /\ 0 \in -6 .. 0
      BY <1>7 DEF Locations, Dup2
    <3>8. status' = status
      BY <1>7 DEF Dup2
    <3> QED BY <2>2, <3>1, <3>3, <3>6, <3>7, <3>8, MoveKeeps DEF Return
  <2>3. CASE Return(p, -6) /\ UNCHANGED attr
    BY <1>7, <2>3, ReturnKeeps DEF Dup2
  <2> QED BY <1>7, <2>1, <2>2, <2>3 DEF Dup2, Dup2Returns
<1>8. CASE MainContinues(p)
  <2>1. Detached(p, 3) /\ pc' = [pc EXCEPT ![p] = "main"]
        /\ ret' = ret /\ attr' = attr /\ status' = status
    BY <1>0, <1>8 DEF MainContinues, MainAccepts, Progress
  <2>2. pc'[p] = "main" /\ "main" \in Locations /\ pc[p] \notin Waiting
    BY <1>0, <1>8, <2>1 DEF MainContinues, Locations
  <2>3. Progress(p)'
    BY <1>0, <2>1, <2>2 DEF Progress, Detached, Apart
  <2> QED BY <2>1, <2>2, <2>3, MoveKeeps
<1>9. CASE MainRefuses(p)
  <2>1. /\ pc' = [pc EXCEPT ![p] = "exited"]
        /\ status' = [status EXCEPT ![p] = 1]
        /\ ret' = ret /\ attr' = attr
    BY <1>9 DEF MainRefuses, ExitWith
  <2>2. pc'[p] = "exited" /\ "exited" \in Locations /\ pc[p] \notin Waiting
    BY <1>0, <1>9, <2>1 DEF MainRefuses, Locations
  <2>3. Progress(p)'
    BY <1>0, <2>1, <2>2 DEF Progress
  <2> QED BY <2>1, <2>2, <2>3, MoveKeeps
<1>10. CASE ParentExits(p)
  <2>1. /\ pc' = [pc EXCEPT ![p] = "exited"]
        /\ status' = [status EXCEPT ![p] = 0]
        /\ ret' = ret /\ attr' = attr
    BY <1>10 DEF ParentExits, ExitWith
  <2>2. TypeOK'
    BY <2>1 DEF DaemonInv, TypeOK, Locations
  <2>3. OneGoesOn'
    BY <2>1 DEF DaemonInv, OneGoesOn, TypeOK
  <2>4. ASSUME NEW q \in Processes
        PROVE  Progress(q)'
    <3>1. ((q = p /\ pc'[q] = "exited") \/ pc'[q] = pc[q])
          /\ attr'[q] = attr[q] /\ ret'[q] = ret[q]
      BY <2>1 DEF DaemonInv, TypeOK
    <3> QED BY <3>1 DEF DaemonInv, Progress, Apart, Detached
  <2>5. NotCalled'
    <3>1. 0 \in Processes /\ pc[0] # "absent"
      BY <1>10 DEF ParentExits, DaemonInv, NotCalled, Processes
    <3>2. pc'[0] # "absent"
      BY <2>1, <3>1 DEF DaemonInv, TypeOK
    <3> QED BY <3>2 DEF NotCalled
  <2> QED BY <2>2, <2>3, <2>4, <2>5 DEF DaemonInv
<1> QED BY <1>1, <1>2, <1>3, <1>4, <1>5, <1>6, <1>7, <1>8, <1>9, <1>10 DEF Step

LEMMA CallInv ==
  ASSUME DaemonInv, Call
  PROVE  DaemonInv'
<1>1. 0 \in Processes /\ pc[0] = "absent" /\ UNCHANGED <<ret, attr, status>>
      /\ pc' = [pc EXCEPT ![0] = "fork1"]
  BY DEF Call, Processes
<1>2. TypeOK'
  BY <1>1 DEF DaemonInv, TypeOK, Locations
<1>3. OneGoesOn'
  <2>1. \A q \in Processes : q # 0 => pc'[q] = "absent"
    BY <1>1 DEF DaemonInv, NotCalled, TypeOK
  <2> QED BY <2>1 DEF OneGoesOn
<1>4. NotCalled'
  BY <1>1 DEF DaemonInv, TypeOK, NotCalled
<1>5. ASSUME NEW q \in Processes
      PROVE  Progress(q)'
  <2>1. attr'[q] = attr[q] /\ ret'[q] = ret[q]
    BY <1>1
  <2>2. CASE q = 0
    <3>1. pc'[q] = "fork1"
      BY <1>1, <2>2 DEF DaemonInv, TypeOK
    <3> QED BY <2>1, <2>2, <3>1 DEF DaemonInv, Progress
  <2>3. CASE q # 0
    <3>1. pc'[q] = pc[q]
      BY <1>1, <2>3 DEF DaemonInv, TypeOK
    <3> QED BY <2>1, <2>3, <3>1 DEF DaemonInv, Progress, Apart, Detached
  <2> QED BY <2>2, <2>3
<1> QED BY <1>2, <1>3, <1>4, <1>5 DEF DaemonInv

LEMMA NextInv == DaemonInv /\ [Next]_vars => DaemonInv'
<1>1. ASSUME DaemonInv, UNCHANGED vars
      PROVE  DaemonInv'
  BY <1>1 DEF vars, DaemonInv, TypeOK, OneGoesOn, NotCalled, Progress, Apart,
             Detached
<1> QED BY <1>1, StepInv, CallInv DEF Next

\* main starts the processes and moves them in no other way.
LEMMA StartsDaemon == StartSpec => Spec
<1>1. StartInit => Init
  BY DEF StartInit
<1>2. StartNext => [Next]_vars
  BY DEF StartNext, ParseArgs, CallBecomeDaemon, ProcessStep, Next
<1>3. UNCHANGED startVars => UNCHANGED vars
  BY DEF startVars
<1>4. [StartNext]_startVars => [Next]_vars
  BY <1>2, <1>3
<1> QED BY <1>1, <1>4, PTL DEF StartSpec, Spec

LEMMA DaemonInvariant == StartSpec => []DaemonInv
BY InitInv, NextInv, StartsDaemon, PTL DEF Spec

\* Whatever descriptors the starter left open, the process that goes on has
\* left its session, cannot get a terminal back, and holds nothing but the
\* null device.
THEOREM Detaches == StartSpec => []DaemonDetached
<1>1. ASSUME DaemonInv, NEW p \in Processes, pc[p] = "main"
      PROVE  /\ Apart(p) /\ attr[p].detached
             /\ \A d \in Fds :
                  attr[p].fd[d] = IF d <= 2 THEN "null" ELSE "closed"
  <2>1. Detached(p, 3)
    BY <1>1 DEF DaemonInv, Progress
  <2>2. \A d \in Fds : Nulls(3)[d] = IF d <= 2 THEN "null" ELSE "closed"
    BY DEF Nulls, Fds
  <2> QED BY <2>1, <2>2 DEF Detached
<1>2. DaemonInv => DaemonDetached
  BY <1>1 DEF DaemonDetached, Apart
<1> QED BY <1>2, DaemonInvariant, PTL

\* However the three processes interleave, only one is ever going on.
THEOREM GoesOnAlone == StartSpec => []OneGoesOn
<1>1. DaemonInv => OneGoesOn
  BY DEF DaemonInv
<1> QED BY <1>1, DaemonInvariant, PTL

\* setsid is never called by the leader of a process group: the second code
\* that the header lists is not returned.
THEOREM SetsidWorks == StartSpec => []SetsidSucceeds
<1>1. DaemonInv => SetsidSucceeds
  BY DEF DaemonInv, Progress, SetsidSucceeds
<1> QED BY <1>1, DaemonInvariant, PTL

-----------------------------------------------------------------------------
(***************************************************************************)
(* Who tells what happened.  The processes form a chain: one that forked   *)
(* has handed on and only exits with success; the last one is inside       *)
(* become_daemon, in main behind it, or has told its failure.              *)
(***************************************************************************)
Inside == {"fork1", "setsid", "fork2", "clear", "open", "dup1", "dup2"}

HandedOn(p) == pc[p] = "_exit" \/ (pc[p] = "exited" /\ status[p] = 0)

\* Whoever has not forked has no child, whoever has is not the last.
Chained(p) ==
  /\ HandedOn(p) => p < 2 /\ pc[p + 1] # "absent"
  /\ ~HandedOn(p) => \A q \in Processes : p < q => pc[q] = "absent"

\* What it returned and its exit status, by where it is; -1 tells that the
\* first fork failed, and only the starter makes that.
Answered(p) ==
  /\ pc[p] \in Inside \cup {"absent", "_exit"} => ret[p] = 1 /\ status[p] = -1
  /\ pc[p] = "returned" => ret[p] \in -6 .. 0 /\ status[p] = -1
  /\ pc[p] = "main" => ret[p] = 0 /\ status[p] = -1
  /\ pc[p] = "exited" => \/ status[p] = 0 /\ ret[p] = 1
                         \/ status[p] = 1 /\ ret[p] \in -6 .. -1
  /\ ret[p] # 1 => (p = 0 <=> ret[p] = -1)
  /\ pc[p] = "fork1" => p = 0
  /\ pc[p] \in {"setsid", "fork2"} => p = 1
  /\ pc[p] \in {"clear", "open", "dup1", "dup2"} => p = 2

AccountInv == \A p \in Processes : Chained(p) /\ Answered(p)

LEMMA AccountInit == Init => AccountInv
BY DEF Init, AccountInv, Chained, Answered, HandedOn, Inside, Processes

\* A step of p leaves the others where they are.
OthersStay(p) ==
  \A q \in Processes \ {p} :
    pc'[q] = pc[q] /\ ret'[q] = ret[q] /\ status'[q] = status[q]

\* A process that stays the last one answers for itself.
LEMMA LastMoves ==
  ASSUME DaemonInv, AccountInv, NEW p \in Processes, pc[p] \notin Waiting,
         OthersStay(p), pc'[p] \notin {"absent", "_exit"},
         pc'[p] = "exited" => status'[p] # 0,
         Answered(p)'
  PROVE  AccountInv'
<1>1. \A q \in Processes \ {p} : pc'[q] = pc[q]
  BY DEF OthersStay
<1>2. ~HandedOn(p) /\ ~HandedOn(p)'
  BY DEF HandedOn, Waiting
<1>3. \A q \in Processes \ {p} : Answered(q)'
  BY DEF OthersStay, AccountInv, Answered
<1>4. ASSUME NEW q \in Processes
      PROVE  Chained(q)'
  <2>1. HandedOn(q)' <=> HandedOn(q)
    BY <1>2 DEF OthersStay, HandedOn
  <2>2. CASE HandedOn(q)
    <3>1. q < 2 /\ q + 1 \in Processes /\ pc[q + 1] # "absent"
      BY <2>2 DEF AccountInv, Chained, Processes
    <3>2. QED
      BY <1>1, <2>1, <2>2, <3>1 DEF Chained
  <2>3. CASE ~HandedOn(q)
    <3>1. \A r \in Processes : q < r => pc[r] = "absent"
      BY <2>3 DEF AccountInv, Chained
    <3>2. ~(q < p)
      BY <3>1 DEF Waiting
    <3>3. QED
      BY <1>1, <2>1, <2>3, <3>1, <3>2 DEF Chained, Processes
  <2>4. QED
    BY <2>2, <2>3
<1>5. QED
  BY <1>3, <1>4 DEF AccountInv

\* A process that forks hands on to its child.
LEMMA LastForks ==
  ASSUME DaemonInv, AccountInv, NEW p \in 0 .. 1, pc[p] \notin Waiting,
         pc[p] \in Inside, NEW there, Fork(p, there),
         \/ there = "setsid" /\ p = 0
         \/ there = "clear" /\ p = 1
  PROVE  AccountInv'
<1>1. p \in Processes /\ p + 1 \in Processes /\ p # p + 1
  BY DEF Processes
<1>2. /\ pc'[p] = "_exit" /\ pc'[p + 1] = there
      /\ \A q \in Processes \ {p, p + 1} : pc'[q] = pc[q]
      /\ ret' = ret /\ status' = status
  BY <1>1 DEF Fork, DaemonInv, TypeOK
<1>3. ~HandedOn(p) /\ HandedOn(p)'
  BY <1>1, <1>2 DEF HandedOn, Waiting
<1>4. \A q \in Processes : p < q => pc[q] = "absent"
  BY <1>1, <1>3 DEF AccountInv, Chained
<1>5. \A q \in Processes : q < p => HandedOn(q)
  BY <1>1 DEF AccountInv, Chained, Waiting
<1>6. \A q \in Processes : Answered(q)'
  <2>1. Answered(p)'
    BY <1>1, <1>2 DEF AccountInv, Answered, Inside
  <2>2. Answered(p + 1)'
    BY <1>1, <1>2, <1>4 DEF AccountInv, Answered, Inside
  <2>3. QED
    BY <1>2, <2>1, <2>2 DEF AccountInv, Answered
<1>7. \A q \in Processes : p + 1 < q => pc'[q] = "absent"
  BY <1>2, <1>4 DEF Processes
<1>8. \A q \in Processes : q < p => HandedOn(q)' /\ pc'[q + 1] # "absent"
  BY <1>2, <1>5 DEF HandedOn, Processes, AccountInv, Chained
<1>9. ~HandedOn(p + 1)' /\ \A q \in Processes : p + 1 < q => ~HandedOn(q)'
  BY <1>1, <1>2, <1>7 DEF HandedOn
<1>10. ASSUME NEW q \in Processes
       PROVE  Chained(q)'
  BY <1>1, <1>2, <1>3, <1>7, <1>8, <1>9 DEF Chained, Processes
<1>11. QED
  BY <1>6, <1>10 DEF AccountInv

\* become_daemon returns to main with value.
LEMMA LastReturns ==
  ASSUME DaemonInv, AccountInv, NEW p \in Processes, pc[p] \in Inside,
         NEW value \in -6 .. 0, Return(p, value), status' = status,
         p = 0 <=> value = -1
  PROVE  AccountInv'
<1>1. /\ pc' = [pc EXCEPT ![p] = "returned"] /\ ret' = [ret EXCEPT ![p] = value]
      /\ pc[p] \notin Waiting
  BY DEF Return, Inside, Waiting
<1>2. /\ pc'[p] = "returned" /\ ret'[p] = value /\ status'[p] = -1
      /\ OthersStay(p)
  BY <1>1 DEF DaemonInv, TypeOK, AccountInv, Answered, OthersStay
<1>3. Answered(p)'
  BY <1>2 DEF Answered, Inside
<1>4. QED
  BY <1>1, <1>2, <1>3, LastMoves

\* It goes on to its next call, or returns.
LEMMA LastOpens ==
  ASSUME DaemonInv, AccountInv, NEW p \in Processes, NEW here, NEW there,
         NEW k, NEW code \in -6 .. -3, Opens(p, here, k, there, code),
         here \in {"open", "dup1"}, there \in {"dup1", "dup2"}
  PROVE  AccountInv'
<1>1. pc[p] \in Inside /\ p = 2 /\ pc[p] \notin Waiting /\ status' = status
  BY DEF Opens, Inside, AccountInv, Answered, Waiting
<1>2. CASE Return(p, code)
  BY <1>1, <1>2, LastReturns
<1>3. CASE pc' = [pc EXCEPT ![p] = there] /\ UNCHANGED ret
  <2>1. pc'[p] = there /\ ret'[p] = 1 /\ status'[p] = -1 /\ OthersStay(p)
    BY <1>1, <1>3 DEF DaemonInv, TypeOK, AccountInv, Answered, OthersStay
  <2>2. Answered(p)'
    BY <1>1, <2>1 DEF Answered, Inside
  <2>3. QED
    BY <1>1, <2>1, <2>2, LastMoves
<1>4. QED
  BY <1>2, <1>3 DEF Opens

\* Every step of a process keeps the chain and its answers.
LEMMA AccountStep ==
  ASSUME DaemonInv, AccountInv, NEW p \in Processes, Step(p)
  PROVE  AccountInv'
<1>0. /\ Answered(p) /\ Progress(p) /\ pc \in [Processes -> Locations]
      /\ status \in [Processes -> {-1, 0, 1}]
  BY DEF DaemonInv, TypeOK, AccountInv
<1>1. CASE Fork1(p)
  <2>1. p = 0 /\ pc[p] \in Inside /\ pc[p] \notin Waiting
    BY <1>0, <1>1 DEF Fork1, Answered, Inside, Waiting
  <2>2. CASE Fork(p, "setsid")
    BY <2>1, <2>2, LastForks
  <2>3. CASE ForkFails(p, -1)
    BY <2>1, <2>3, LastReturns DEF ForkFails
  <2>4. QED
    BY <1>1, <2>2, <2>3 DEF Fork1
<1>2. CASE Setsid(p)
  <2>1. p = 1 /\ pc[p] \notin Waiting /\ ret[p] = 1 /\ status[p] = -1
    BY <1>0, <1>2 DEF Setsid, Answered, Inside, Waiting
  <2>2. pc'[p] = "fork2" /\ ret' = ret /\ status' = status /\ OthersStay(p)
    BY <1>0, <1>2 DEF Setsid, Progress, OthersStay
  <2>3. Answered(p)'
    BY <1>0, <2>1, <2>2 DEF Answered, Inside
  <2>4. QED
    BY <2>1, <2>2, <2>3, LastMoves
<1>3. CASE Fork2(p)
  <2>1. p = 1 /\ pc[p] \in Inside /\ pc[p] \notin Waiting
    BY <1>0, <1>3 DEF Fork2, Answered, Inside, Waiting
  <2>2. CASE Fork(p, "clear")
    BY <2>1, <2>2, LastForks
  <2>3. CASE ForkFails(p, -3)
    BY <2>1, <2>3, LastReturns DEF ForkFails
  <2>4. QED
    BY <1>3, <2>2, <2>3 DEF Fork2
<1>4. CASE Clear(p)
  <2>1. p = 2 /\ pc[p] \notin Waiting /\ ret[p] = 1 /\ status[p] = -1
    BY <1>0, <1>4 DEF Clear, Answered, Inside, Waiting
  <2>2. pc'[p] = "open" /\ ret' = ret /\ status' = status /\ OthersStay(p)
    BY <1>0, <1>4 DEF Clear, OthersStay
  <2>3. Answered(p)'
    BY <1>0, <2>1, <2>2 DEF Answered, Inside
  <2>4. QED
    BY <2>1, <2>2, <2>3, LastMoves
<1>5. CASE Open(p) \/ Dup1(p)
  BY <1>5, LastOpens DEF Open, Dup1
<1>6. CASE Dup2(p)
  <2>1. p = 2 /\ pc[p] \in Inside /\ status' = status
    BY <1>0, <1>6 DEF Dup2, Answered, Inside
  <2>2. \A d : Dup2Returns(d) \in {0, -6}
    BY DEF Dup2Returns
  <2>3. \E value \in {0, -6} : Return(p, value)
    BY <1>6, <2>2 DEF Dup2
  <2>4. QED
    BY <2>1, <2>3, LastReturns
<1>7. CASE MainContinues(p)
  <2>1. /\ pc[p] = "returned" /\ ret[p] = 0 /\ pc[p] \notin Waiting
        /\ pc'[p] = "main" /\ ret' = ret /\ status' = status /\ OthersStay(p)
    BY <1>0, <1>7 DEF MainContinues, MainAccepts, Waiting, OthersStay
  <2>2. Answered(p)'
    BY <1>0, <2>1 DEF Answered, Inside
  <2>3. QED
    BY <2>1, <2>2, LastMoves
<1>8. CASE MainRefuses(p)
  <2>1. /\ pc[p] = "returned" /\ ret[p] # 0 /\ pc[p] \notin Waiting
        /\ pc' = [pc EXCEPT ![p] = "exited"] /\ ret' = ret
        /\ status' = [status EXCEPT ![p] = 1]
    BY <1>8 DEF MainRefuses, MainAccepts, ExitWith, Waiting
  <2>2. pc'[p] = "exited" /\ status'[p] = 1 /\ OthersStay(p)
    BY <1>0, <2>1 DEF OthersStay
  <2>3. Answered(p)'
    BY <1>0, <2>1, <2>2 DEF Answered, Inside
  <2>4. QED
    BY <2>1, <2>2, <2>3, LastMoves
<1>9. CASE ParentExits(p)
  <2>1. /\ pc[p] = "_exit" /\ ret' = ret
        /\ pc'[p] = "exited" /\ status'[p] = 0
        /\ \A q \in Processes \ {p} : pc'[q] = pc[q] /\ status'[q] = status[q]
    BY <1>0, <1>9 DEF ParentExits, ExitWith
  <2>2. \A q \in Processes : /\ HandedOn(q)' <=> HandedOn(q)
                             /\ pc'[q] = "absent" <=> pc[q] = "absent"
    BY <1>0, <2>1 DEF HandedOn, Answered
  <2>3. ASSUME NEW q \in Processes
        PROVE  Chained(q)' /\ Answered(q)'
    <3>1. Chained(q)'
      BY <2>2 DEF AccountInv, Chained, Processes
    <3>2. Answered(q)'
      BY <1>0, <2>1 DEF AccountInv, Answered, Inside
    <3>3. QED
      BY <3>1, <3>2
  <2>4. QED
    BY <2>3 DEF AccountInv
<1>10. QED
  BY <1>1, <1>2, <1>3, <1>4, <1>5, <1>6, <1>7, <1>8, <1>9 DEF Step

\* The starter is the first.
LEMMA AccountCall ==
  ASSUME DaemonInv, AccountInv, Call
  PROVE  AccountInv'
<1>1. /\ pc'[0] = "fork1" /\ ret' = ret /\ status' = status
      /\ \A q \in Processes : pc[q] = "absent"
      /\ \A q \in Processes \ {0} : pc'[q] = "absent"
  BY DEF Call, DaemonInv, NotCalled, TypeOK, Processes
<1>2. \A q \in Processes : Answered(q)'
  BY <1>1 DEF AccountInv, Answered, Inside
<1>3. \A q \in Processes : Chained(q)'
  BY <1>1 DEF Chained, HandedOn, Processes
<1>4. QED
  BY <1>2, <1>3 DEF AccountInv

LEMMA AccountInvariant == StartSpec => []AccountInv
<1>1. ASSUME AccountInv, UNCHANGED vars
      PROVE  AccountInv'
  BY <1>1 DEF vars, AccountInv, Chained, Answered, HandedOn
<1>2. DaemonInv /\ AccountInv /\ [Next]_vars => AccountInv'
  BY <1>1, AccountStep, AccountCall DEF Next
<1>3. QED
  BY <1>2, AccountInit, DaemonInvariant, StartsDaemon, PTL DEF Spec

\* A process exists only after main called become_daemon, which it does after
\* an accepted command line with --daemon.
Called == pc[0] # "absent"

\* Whatever fails and in whatever order the processes run, once none of them
\* has a step left, either one serves and the others ended with success, or
\* exactly one tells the failure: the starter only when the first fork failed.
THEOREM SettlesAccountable == StartSpec => [](Settled /\ Called => Accountable)
<1>1. ASSUME AccountInv, Settled, Called
      PROVE  Accountable
  <2>1. \A p \in Processes : Chained(p) /\ Answered(p)
    BY <1>1 DEF AccountInv
  <2>2. PICK p \in Processes : /\ pc[p] # "absent" /\ ~HandedOn(p)
                               /\ \A q \in Processes : p < q => pc[q] = "absent"
                               /\ \A q \in Processes : q < p => HandedOn(q)
    <3>1. pc[0] # "absent" /\ ~HandedOn(2)
      BY <1>1, <2>1 DEF Called, Chained, Processes
    <3>2. QED
      BY <2>1, <3>1 DEF Chained, Processes
  <2>3. \A q \in Processes \ {p} : status[q] # 1 /\ pc[q] # "main"
    <3>1. \A q \in Processes \ {p} : HandedOn(q) \/ pc[q] = "absent"
      BY <2>2 DEF Processes
    <3>2. QED
      BY <2>1, <3>1 DEF HandedOn, Answered
  <2>4. \/ pc[p] = "main" /\ ret[p] = 0 /\ status[p] = -1
        \/ /\ pc[p] = "exited" /\ status[p] = 1 /\ ret[p] \in -6 .. -1
           /\ (p = 0 <=> ret[p] = -1)
    BY <1>1, <2>1, <2>2 DEF Settled, HandedOn, Answered
  <2>5. QED
    BY <2>3, <2>4 DEF Accountable
<1>2. AccountInv => (Settled /\ Called => Accountable)
  BY <1>1
<1>3. QED
  BY <1>2, AccountInvariant, PTL

\* And then nothing moves any more: no process is left that could still take
\* the answer back, and main never calls become_daemon again.
LEMMA StaysSettled == StartSpec => [][Settled /\ Called => UNCHANGED vars]_vars
<1>1. ASSUME Settled, Called, Next
      PROVE  FALSE
  BY <1>1
     DEF Settled, Called, Next, Call, Step, Fork1, Setsid, Fork2, Clear, Open,
         Dup1, Opens, Dup2, MainContinues, MainRefuses, ParentExits
<1>2. [Next]_vars => [Settled /\ Called => UNCHANGED vars]_vars
  BY <1>1
<1>3. QED
  BY <1>2, StartsDaemon, PTL DEF Spec

\* What main's processes hold stays in its type.
THEOREM DaemonTyped == StartSpec => []TypeOK
<1>1. DaemonInv => TypeOK
  BY DEF DaemonInv
<1>2. QED
  BY <1>1, DaemonInvariant, PTL

-----------------------------------------------------------------------------
(***************************************************************************)
(* The command line.  argp tells of a positional argument only after all   *)
(* options were parsed, so the invariant says what the parsed part of the  *)
(* command line holds, and that positional remembers it.                   *)
(***************************************************************************)
Before == 1 .. next - 1

ArgsInv ==
  /\ argv \in Seq(Items) /\ next \in 1 .. Len(argv) + 1
  /\ positional <=> \E i \in Before : argv[i].key = "positional"
  /\ \A i \in Before : argv[i].key \notin {"stranger", "help"}
  /\ StrangersRefused

\* Before the first item there is none.
LEMMA ArgsInitInv == ArgsInit => ArgsInv
<1> SUFFICES ASSUME ArgsInit PROVE ArgsInv
  OBVIOUS
<1>1. PICK n \in 0 .. MaxItems : argv \in [1 .. n -> Items]
  BY DEF ArgsInit
<1>2. argv \in Seq(Items) /\ Len(argv) \in Nat
  BY <1>1, ItemsAssumption
<1>3. next = 1 /\ ~positional /\ outcome = "parsing"
  BY DEF ArgsInit
<1>4. Before = {}
  BY <1>3 DEF Before
<1>5. QED
  BY <1>2, <1>3, <1>4 DEF ArgsInv, StrangersRefused

\* An item moves into the parsed part, or parsing ends on what it holds.
LEMMA ArgsStepInv ==
  ASSUME ArgsInv, [ArgsNext]_argsVars
  PROVE  ArgsInv'
<1> USE DEF Parsing, Item
<1>0. argv \in Seq(Items) /\ Len(argv) \in Nat /\ next \in 1 .. Len(argv) + 1
  BY DEF ArgsInv
<1>1. ASSUME Parsing, next <= Len(argv), next' = next + 1,
             UNCHANGED <<argv, outcome>>,
             argv[next].key \notin {"stranger", "help"},
             positional' <=> (positional \/ argv[next].key = "positional")
      PROVE  ArgsInv'
  <2>1. next' \in 1 .. Len(argv) + 1 /\ Before' = Before \cup {next}
    BY <1>0, <1>1 DEF Before
  <2>2. StrangersRefused'
    BY <1>1 DEF StrangersRefused
  <2>3. positional' <=> \E i \in Before' : argv'[i].key = "positional"
    BY <1>1, <2>1 DEF ArgsInv
  <2>4. \A i \in Before' : argv'[i].key \notin {"stranger", "help"}
    BY <1>1, <2>1 DEF ArgsInv
  <2>5. QED
    BY <1>0, <1>1, <2>1, <2>2, <2>3, <2>4 DEF ArgsInv
<1>2. CASE ParseOption
  BY <1>0, <1>1, <1>2 DEF ParseOption, Required
<1>3. CASE SkipPositional
  BY <1>0, <1>1, <1>3 DEF SkipPositional
<1>4. ASSUME UNCHANGED <<argv, next, positional>>, StrangersRefused'
      PROVE  ArgsInv'
  BY <1>4 DEF ArgsInv, Before
<1>5. CASE ArgpExits
  <2>1. next \in 1 .. Len(argv)
    BY <1>0, <1>5 DEF ArgpExits
  <2>2. CASE argv[next].key = "stranger"
    <3>1. next \in Given("stranger")' /\ outcome' # "accepted"
      BY <1>5, <2>1, <2>2 DEF ArgpExits, Given
    <3>2. Given("stranger")' # {}
      BY <3>1
    <3>3. StrangersRefused'
      BY <3>1, <3>2 DEF StrangersRefused
    <3>4. QED
      BY <1>4, <1>5, <3>3 DEF ArgpExits
  <2>3. CASE outcome' = "help"
    BY <1>4, <1>5, <2>3 DEF ArgpExits, StrangersRefused
  <2>4. QED
    BY <1>5, <2>2, <2>3 DEF ArgpExits
<1>6. CASE RefusePositional
  <2>1. Before = 1 .. Len(argv) /\ positional /\ outcome' = "usage"
    BY <1>0, <1>6 DEF RefusePositional, Before
  <2>2. Given("positional")' # {}
    BY <1>6, <2>1 DEF RefusePositional, Given, ArgsInv
  <2>3. QED
    BY <1>4, <1>6, <2>1, <2>2 DEF RefusePositional, StrangersRefused
<1>7. CASE ParseEnd
  <2>1. Before = 1 .. Len(argv)
    BY <1>0, <1>7 DEF ParseEnd, Before
  <2>2. ~positional /\ outcome' \in {"accepted", "failure"}
    BY <1>7 DEF ParseEnd, ParseOptArg, Unknown
  <2>3. \A key \in {"positional", "stranger", "help"} : Given(key)' = {}
    BY <1>7, <2>1, <2>2 DEF ParseEnd, Given, ArgsInv
  <2>4. QED
    BY <1>4, <1>7, <2>2, <2>3 DEF ParseEnd, StrangersRefused
<1>8. CASE Done \/ UNCHANGED argsVars
  BY <1>8 DEF Done, argsVars, ArgsInv, Before, StrangersRefused, Given
<1>9. CASE ArgpFails
  BY <1>4, <1>9 DEF ArgpFails, StrangersRefused
<1>10. QED
  BY <1>2, <1>3, <1>5, <1>6, <1>7, <1>8, <1>9 DEF ArgsNext

\* The double fork leaves the command line alone.
LEMMA StartsArgs == StartSpec => ArgsSpec
<1>1. StartInit => ArgsInit
  BY DEF StartInit
<1>2. [StartNext]_startVars => [ArgsNext]_argsVars
  BY DEF StartNext, ParseArgs, CallBecomeDaemon, ProcessStep, startVars
<1> QED BY <1>1, <1>2, PTL DEF StartSpec, ArgsSpec

\* On a command line of any length, a positional argument or unknown option
\* in any place keeps the daemon from starting, and nothing else is answered
\* with the usage.
THEOREM RefusesStrangers == StartSpec => []StrangersRefused
<1>1. ArgsInv => StrangersRefused
  BY DEF ArgsInv
<1>2. StartSpec => []ArgsInv
  BY ArgsInitInv, ArgsStepInv, StartsArgs, PTL DEF ArgsSpec
<1>3. QED
  BY <1>1, <1>2, PTL

\* struct Args.
ArgumentsType == [device_id : Values \cup {Null}, device_secret : Values \cup {Null},
                  product_id : Values \cup {Null}, become_daemon : BOOLEAN]

\* The flag is only set by the option, and main only calls become_daemon when
\* it is set on a command line that was accepted.
AskedInv ==
  /\ arguments \in ArgumentsType
  /\ arguments.become_daemon => \E i \in Before : argv[i].key = "become_daemon"
  /\ Called => outcome = "accepted" /\ arguments.become_daemon

LEMMA AskedInit == StartInit => AskedInv
BY DEF StartInit, ArgsInit, Init, AskedInv, ArgumentsType, Called, Processes

LEMMA AskedStep ==
  ASSUME ArgsInv, DaemonInv, AskedInv, [StartNext]_startVars
  PROVE  AskedInv'
<1>1. CASE ParseArgs
  <2>1. UNCHANGED pc /\ ArgsNext
    BY <1>1 DEF ParseArgs, vars
  <2>2. CASE ParseOption
    <3>1. /\ Parsing /\ next \in 1 .. Len(argv) /\ Len(argv) \in Nat
          /\ argv[next] \in Items
      BY <2>2 DEF ParseOption, ArgsInv
    <3>2. /\ argv' = argv /\ Before' = Before \cup {next}
          /\ Item = argv[next] /\ outcome' = outcome
      BY <2>2, <3>1 DEF ParseOption, Before, Item
    <3>3. ~Called
      BY <3>1 DEF AskedInv, Parsing
    <3>4. CASE argv[next].key = "become_daemon"
      <4>1. arguments' = [arguments EXCEPT !.become_daemon = TRUE]
        BY <2>2, <3>2, <3>4 DEF ParseOption, Parsed
      <4>2. QED
        BY <2>1, <3>2, <3>3, <3>4, <4>1 DEF AskedInv, ArgumentsType, Called
    <3>5. CASE argv[next].key # "become_daemon"
      <4>1. argv[next].key \in Required /\ argv[next].arg \in Values \cup {Null}
        BY <2>2, <3>1, <3>2, <3>5 DEF ParseOption, Items
      <4>2. arguments' = [arguments EXCEPT ![argv[next].key] = argv[next].arg]
        BY <2>2, <3>2, <3>5 DEF ParseOption, Parsed
      <4>3. /\ arguments' \in ArgumentsType
            /\ arguments'.become_daemon = arguments.become_daemon
        BY <4>1, <4>2 DEF AskedInv, ArgumentsType, Required
      <4>4. QED
        BY <2>1, <3>2, <3>3, <4>3 DEF AskedInv, Called
    <3>6. QED
      BY <3>4, <3>5
  <2>3. CASE SkipPositional
    <3>1. UNCHANGED <<argv, arguments, outcome>> /\ Before \subseteq Before'
      BY <2>3 DEF SkipPositional, Before, ArgsInv
    <3>2. QED
      BY <2>1, <3>1 DEF AskedInv, Called
  <2>4. CASE ArgpExits \/ ArgpFails \/ RefusePositional \/ ParseEnd \/ Done
    <3>1. UNCHANGED <<argv, next, arguments>> /\ (Called => UNCHANGED outcome)
      BY <2>4
         DEF ArgpExits, ArgpFails, RefusePositional, ParseEnd, Done,
             argsVars, AskedInv, Parsing
    <3>2. QED
      BY <2>1, <3>1 DEF AskedInv, Called, Before
  <2>5. QED
    BY <2>1, <2>2, <2>3, <2>4 DEF ArgsNext
<1>2. CASE CallBecomeDaemon
  BY <1>2 DEF CallBecomeDaemon, argsVars, AskedInv, Called, Before
<1>3. ASSUME NEW p \in Processes, ProcessStep(p)
      PROVE  AskedInv'
  <2>1. UNCHANGED argsVars /\ Step(p)
    BY <1>3 DEF ProcessStep
  <2>2. Called
    <3>1. pc[p] # "absent"
      BY <2>1
         DEF Step, Fork1, Setsid, Fork2, Clear, Open, Dup1, Opens, Dup2,
             MainContinues, MainRefuses, ParentExits
    <3>2. QED
      BY <3>1 DEF DaemonInv, NotCalled, Called
  <2>3. QED
    BY <2>1, <2>2 DEF argsVars, AskedInv, Before
<1>4. CASE UNCHANGED startVars
  BY <1>4 DEF startVars, argsVars, vars, AskedInv, Called, Before
<1>5. QED
  BY <1>1, <1>2, <1>3, <1>4 DEF StartNext

\* A process of become_daemon exists only after a command line that was
\* accepted and holds --daemon.
THEOREM ForksWhenAsked ==
  StartSpec => [](Called => /\ outcome = "accepted"
                            /\ Given("become_daemon") # {})
<1>1. ArgsInv /\ AskedInv => (Called => /\ outcome = "accepted"
                                        /\ Given("become_daemon") # {})
  BY DEF ArgsInv, AskedInv, Given, Before
<1>2. StartSpec => []ArgsInv
  BY ArgsInitInv, ArgsStepInv, StartsArgs, PTL DEF ArgsSpec
<1>3. StartSpec => []AskedInv
  BY <1>2, AskedInit, AskedStep, DaemonInvariant, PTL DEF StartSpec
<1>4. QED
  BY <1>1, <1>2, <1>3, PTL
=============================================================================
