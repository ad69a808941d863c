----------------------------- MODULE RpcSession -----------------------------
(***************************************************************************)
(* What a connection promises to those who call through it, whatever       *)
(* happens below: every call ends at most once; it succeeds only when a    *)
(* response to that very call has arrived, or, for a one-way call, when it *)
(* was written; and a call that begins after the session is over can only  *)
(* fail.  A response does not say that the server did what it was asked.   *)
(***************************************************************************)

CONSTANT Calls

VARIABLES
  status,   \* new, live, doomed (begun after the end), ok, failed
  served,   \* calls whose response arrived; one-way calls that were written
  over      \* the session has ended

sessionVars == <<status, served, over>>

Init == status = [c \in Calls |-> "new"] /\ served = {} /\ over = FALSE

Begin(c) ==
  /\ status[c] = "new"
  /\ status' = [status EXCEPT ![c] = IF over THEN "doomed" ELSE "live"]
  /\ UNCHANGED <<served, over>>

\* A reply may arrive after its caller gave up.
Serve(c) ==
  /\ status[c] \in {"live", "failed"}
  /\ served' = served \cup {c}
  /\ UNCHANGED <<status, over>>

Succeed(c) ==
  /\ status[c] = "live" /\ c \in served
  /\ status' = [status EXCEPT ![c] = "ok"]
  /\ UNCHANGED <<served, over>>

Fail(c) ==
  /\ status[c] \in {"live", "doomed"}
  /\ status' = [status EXCEPT ![c] = "failed"]
  /\ UNCHANGED <<served, over>>

End == ~over /\ over' = TRUE /\ UNCHANGED <<status, served>>

Next == End \/ \E c \in Calls : Begin(c) \/ Serve(c) \/ Succeed(c) \/ Fail(c)

Spec == Init /\ [][Next]_sessionVars
=============================================================================
