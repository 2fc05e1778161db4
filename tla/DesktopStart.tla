---------------------------- MODULE DesktopStart ----------------------------
(***************************************************************************)
(* main of the desktop daemon up to where it initialises the SDK: the      *)
(* command line (DesktopArgs), and if it says so the double fork           *)
(* (BecomeDaemon).  What main does then, in whichever process it goes on,  *)
(* is in DesktopDaemon.                                                    *)
(***************************************************************************)
EXTENDS DesktopArgs, BecomeDaemon

startVars == <<argsVars, vars>>

StartInit == ArgsInit /\ Init

ParseArgs == ArgsNext /\ UNCHANGED vars

CallBecomeDaemon ==
  /\ outcome = "accepted" /\ arguments.become_daemon
  /\ Call
  /\ UNCHANGED argsVars

ProcessStep(p) == Step(p) /\ UNCHANGED argsVars

StartNext ==
  \/ ParseArgs
  \/ CallBecomeDaemon
  \/ \E p \in Processes : ProcessStep(p)

\* Every process is scheduled.
StartSpec ==
  /\ StartInit /\ [][StartNext]_startVars
  /\ WF_startVars(CallBecomeDaemon)
  /\ \A p \in Processes : WF_startVars(ProcessStep(p))

-----------------------------------------------------------------------------
Settled == \A p \in Processes : pc[p] \in {"absent", "main", "exited"}

\* Whatever fails and in whatever order the processes run, in the end either
\* one process serves and the others ended with success, or exactly one of
\* them tells the failure.  That is the starter only when the first fork
\* failed: later failures are not seen by whoever waits for it.
Accountable ==
  LET telling == {p \in Processes : status[p] = 1}
  IN  \/ \E p \in Processes : pc[p] = "main" /\ ret[p] = 0 /\ telling = {}
      \/ \E p \in Processes : /\ telling = {p} /\ ret[p] # 0
                              /\ p = 0 <=> ret[p] = -1
                              /\ \A q \in Processes : pc[q] # "main"

\* A command line with --daemon that is accepted comes to such an end; after
\* any other one there is no second process.
EndsAccountable ==
  <>[](IF outcome = "accepted" /\ Given("become_daemon") # {}
       THEN Settled /\ Accountable
       ELSE \A p \in Processes : pc[p] = "absent")
=============================================================================
