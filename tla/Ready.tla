-------------------------------- MODULE Ready --------------------------------
(***************************************************************************)
(* The readiness probe of store/ebow/ready.go: callers of Ready share one  *)
(* running check, which writes a file in a goroutine of its own and gives  *)
(* up after readyTimeout.                                                  *)
(***************************************************************************)
EXTENDS Integers, FiniteSets

CONSTANTS Callers,   \* HTTP handlers of GET /readyz
          MaxReady   \* bound: calls of Ready

ASSUME ReadyConfig == MaxReady \in Nat

VARIABLES
    readyRunning,  \* the number of the running check, 0 without one
    probeHanging,  \* the number of the check whose probe ran into the timeout, or 0
    probe,         \* check -> its goroutine: "none", "running", "ok" or "failed" (in the channel)
    caller,        \* caller -> [pc, check]
    answer,        \* check -> "none", "ok", "error": readyCheck.err, once done is closed
    checks         \* number of checks so far

rvars == <<readyRunning, probeHanging, probe, caller, answer, checks>>

Checks == 1 .. MaxReady

ReadyInit ==
    /\ readyRunning = 0 /\ probeHanging = 0 /\ checks = 0
    /\ probe = [n \in Checks |-> "none"] /\ answer = [n \in Checks |-> "none"]
    /\ caller = [r \in Callers |-> [pc |-> "idle", check |-> 0]]

\* Ready: wait for the running check, or become it.
ReadyCall(r) ==
    /\ caller[r].pc = "idle" /\ checks < MaxReady
    /\ IF readyRunning # 0
       THEN /\ caller' = [caller EXCEPT ![r] = [pc |-> "wait", check |-> readyRunning]]
            /\ UNCHANGED <<readyRunning, checks>>
       ELSE /\ checks' = checks + 1 /\ readyRunning' = checks'
            /\ caller' = [caller EXCEPT ![r] = [pc |-> "check", check |-> checks']]
    /\ UNCHANGED <<probeHanging, probe, answer>>

\* Ready returns e to the caller that ran the check: readyRunning is cleared and
\* done is closed.  Whoever waits reads the same result.
Finish(r, e) ==
    /\ answer' = [answer EXCEPT ![caller[r].check] = e]
    /\ readyRunning' = 0
    /\ caller' = [caller EXCEPT ![r] = [pc |-> "idle", check |-> 0]]

\* Mutant: a probe that still hangs does not stop the next one.
checkReady_Again(r, closed) ==
    /\ caller[r].pc = "check"
    /\ \/ closed /\ Finish(r, "error") /\ UNCHANGED <<probeHanging, probe>>
       \/ /\ ~closed
          /\ probe' = [probe EXCEPT ![caller[r].check] = "running"]
          /\ probeHanging' = 0
          /\ caller' = [caller EXCEPT ![r].pc = "select"]
          /\ UNCHANGED <<readyRunning, answer>>
    /\ UNCHANGED checks

\* checkReady up to the start of the probe: refused after the pool has closed
\* and while the probe of an earlier check hangs; its late result is dropped.
checkReady(r, closed) ==
    /\ caller[r].pc = "check"
    /\ LET hangs == probeHanging # 0 /\ probe[probeHanging] = "running" IN
       \/ (closed \/ hangs) /\ Finish(r, "error") /\ UNCHANGED <<probeHanging, probe>>
       \/ /\ ~closed /\ ~hangs
          /\ probe' = [probe EXCEPT ![caller[r].check] = "running"]
          /\ probeHanging' = 0
          /\ caller' = [caller EXCEPT ![r].pc = "select"]
          /\ UNCHANGED <<readyRunning, answer>>
    /\ UNCHANGED checks

\* probeDir ends, or never does on a volume that hangs.
probeDir(n) ==
    /\ probe[n] = "running"
    /\ \E e \in {"ok", "failed"} : probe' = [probe EXCEPT ![n] = e]
    /\ UNCHANGED <<readyRunning, probeHanging, caller, answer, checks>>

\* The select of checkReady: the result, or the timeout (either, if both are
\* there).
checkResult(r) ==
    /\ caller[r].pc = "select"
    /\ LET n == caller[r].check IN
       \/ /\ probe[n] \in {"ok", "failed"}
          /\ Finish(r, IF probe[n] = "ok" THEN "ok" ELSE "error") /\ UNCHANGED probeHanging
       \/ Finish(r, "error") /\ probeHanging' = n
    /\ UNCHANGED <<probe, checks>>

\* A caller that waited returns once done is closed.
ReadyShared(r) ==
    /\ caller[r].pc = "wait" /\ answer[caller[r].check] # "none"
    /\ caller' = [caller EXCEPT ![r] = [pc |-> "idle", check |-> 0]]
    /\ UNCHANGED <<readyRunning, probeHanging, probe, answer, checks>>

ReadyStep(r, closed) == ReadyCall(r) \/ checkReady(r, closed) \/ checkResult(r) \/ ReadyShared(r)

-----------------------------------------------------------------------------
(* Properties.                                                             *)

\* At most one goroutine writes to the volume, however many callers ask and
\* however long it hangs ("Es laeuft hoechstens eine Pruefung zugleich"), and
\* "ready" is the result of the check's own probe, not of an earlier one that
\* came late.
OneProbe ==
    /\ Cardinality({n \in Checks : probe[n] = "running"}) <= 1
    /\ Cardinality({r \in Callers : caller[r].pc \in {"check", "select"}}) <= 1
    /\ \A n \in Checks : answer[n] = "ok" => probe[n] = "ok"

=============================================================================
