----------------------------- MODULE Lifecycle -----------------------------
(***************************************************************************)
(* What a Tuya daemon promises to whoever starts and stops it, without the *)
(* steps by which it keeps the promise.                                    *)
(*                                                                         *)
(*  - it serves only once it is online (unless it is one that may serve    *)
(*    offline), or when it is asked to stop and is on its way out;         *)
(*  - it ends with status 0 only when asked to stop, and tells a failure   *)
(*    by another status, decided before it closes;                         *)
(*  - started only to tell how it is used, it ends with status 0 too, and  *)
(*    never acquires the SDK client, so it neither connects nor serves;    *)
(*  - the SDK client it acquired is taken offline and then released before *)
(*    it ends, whatever the reason it ends for.                            *)
(***************************************************************************)
EXTENDS Integers

CONSTANTS
  Failures,        \* the exit statuses that tell a failure
  ServesOffline    \* TRUE: it may start to serve before it is online

VARIABLES
  phase,    \* setup, connecting, serving, closing, ended; killed
  asked,    \* a stop was requested
  client,   \* the SDK client is acquired
  online,   \* the client is connected
  status,   \* the exit status
  informs   \* how it was started: only to tell how it is used

vars == <<phase, asked, client, online, status, informs>>

Phases == {"setup", "connecting", "serving", "closing", "ended", "killed"}

Init ==
  /\ phase = "setup" /\ asked = FALSE
  /\ client = FALSE /\ online = FALSE /\ status = 0
  /\ informs \in BOOLEAN

Ask ==
  /\ phase \notin {"ended", "killed"}
  /\ asked' = TRUE
  /\ UNCHANGED <<phase, client, online, status>>

Acquire ==
  /\ phase = "setup" /\ ~client /\ ~informs
  /\ client' = TRUE
  /\ UNCHANGED <<phase, asked, online, status>>

Connect ==
  /\ phase = "setup" /\ client
  /\ phase' = "connecting"
  /\ UNCHANGED <<asked, client, online, status>>

\* The session with the cloud comes and goes.
Flip ==
  /\ phase \in {"connecting", "serving"}
  /\ online' = ~online
  /\ UNCHANGED <<phase, asked, client, status>>

Serve ==
  /\ phase = "connecting" /\ (online \/ asked \/ ServesOffline)
  /\ phase' = "serving"
  /\ UNCHANGED <<asked, client, online, status>>

\* It told what it was started for, before it acquired anything.
Inform ==
  /\ phase = "setup" /\ informs
  /\ phase' = "closing"
  /\ UNCHANGED <<asked, client, online, status>>

GiveUp ==
  /\ phase \in {"setup", "connecting", "serving"}
  /\ phase' = "closing"
  /\ status' \in Failures
  /\ UNCHANGED <<asked, client, online>>

Stop ==
  /\ phase = "serving" /\ asked
  /\ phase' = "closing"
  /\ UNCHANGED <<asked, client, online, status>>

GoOffline ==
  /\ phase = "closing" /\ online
  /\ online' = FALSE
  /\ UNCHANGED <<phase, asked, client, status>>

Release ==
  /\ phase = "closing" /\ client /\ ~online
  /\ client' = FALSE
  /\ UNCHANGED <<phase, asked, online, status>>

End ==
  /\ phase = "closing" /\ ~client
  /\ phase' = "ended"
  /\ UNCHANGED <<asked, client, online, status>>

\* The process dies: nothing is promised from here on.
Die ==
  /\ phase \notin {"ended", "killed"}
  /\ phase' = "killed"
  /\ UNCHANGED <<asked, client, online, status>>

Next ==
  /\ \/ Ask \/ Acquire \/ Connect \/ Flip \/ Serve \/ Inform \/ GiveUp
     \/ Stop \/ GoOffline \/ Release \/ End \/ Die
  /\ UNCHANGED informs

Spec == Init /\ [][Next]_vars
=============================================================================
