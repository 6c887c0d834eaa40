----------------------------- MODULE GoogleCall -----------------------------
(***************************************************************************)
(* One call to a Google API, as every connector makes it: execute of       *)
(* app/connectors/google/_retry.py, with the process-wide lock around the  *)
(* request, the retries of what is transient, and the auth health flag of  *)
(* app/connectors/google/health.py, set outside that lock.                 *)
(*                                                                         *)
(* A thread asks, waits for the lock, has its request sent, and ends done, *)
(* raised, or dead (GoogleAuthError).  What a request does to Google's     *)
(* side is the caller's: Through and Dropped are conjoined with it.        *)
(***************************************************************************)
EXTENDS Naturals

CONSTANTS Threads, Free,
          Attempts,   \* execute's parameter, 6 in the code
          MaxFaults,   \* bound on failed requests
          MaxTurns,    \* bound on the times the refresh token dies or revives
          MaxRestarts  \* bound on process restarts

ASSUME CallAssumption == /\ Free \notin Threads /\ Attempts \in Nat \ {0}
                         /\ MaxFaults \in Nat /\ MaxTurns \in Nat /\ MaxRestarts \in Nat

VARIABLES at,       \* [Threads -> where its call is]
          tries,    \* [Threads -> the attempts that failed]
          holder,   \* who holds _GOOGLE_LOCK
          healthy,  \* _state["ok"]
          token,    \* whether Google would refresh the access token
          faults, turns, restarts

world    == <<token, faults, turns, restarts>>
callVars == <<at, tries, holder, healthy, world>>

Over == {"done", "raised", "dead"}

CallTypeOK == /\ at \in [Threads -> {"out", "wait", "sent", "ok", "refused", "backoff"} \cup Over]
              /\ tries \in [Threads -> 0..Attempts - 1]
              /\ holder \in Threads \cup {Free}
              /\ healthy \in BOOLEAN /\ token \in BOOLEAN
              /\ faults \in 0..MaxFaults /\ turns \in 0..MaxTurns
              /\ restarts \in 0..MaxRestarts

CallInit == /\ at = [t \in Threads |-> "out"] /\ tries = [t \in Threads |-> 0]
            /\ holder = Free /\ healthy = TRUE /\ token = TRUE
            /\ faults = 0 /\ turns = 0 /\ restarts = 0

Goto(t, l) == at' = [at EXCEPT ![t] = l]

\* What the caller does: the next call, or on with something else.
Ask(t)    == /\ at[t] \in {"out"} \cup Over /\ Goto(t, "wait")
             /\ tries' = [tries EXCEPT ![t] = 0]
             /\ UNCHANGED <<holder, healthy, world>>
Return(t) == /\ at[t] \in Over /\ Goto(t, "out")
             /\ tries' = [tries EXCEPT ![t] = 0]
             /\ UNCHANGED <<holder, healthy, world>>

Enter(t) == /\ at[t] = "wait" /\ holder = Free
            /\ Goto(t, "sent") /\ holder' = t
            /\ UNCHANGED <<tries, healthy, world>>

\* Out of the with block, by a result or by an exception.
LeaveIfOk(t, l) ==   \* mutant: the lock is released on the way of a result only
    at[t] = "sent" /\ Goto(t, l) /\ holder' = IF l = "ok" THEN Free ELSE holder
Leave(t, l) == at[t] = "sent" /\ Goto(t, l) /\ holder' = Free

Through(t) == /\ token /\ Leave(t, "ok")
              /\ UNCHANGED <<tries, healthy, world>>
NotMarked(t) == /\ ~token /\ Leave(t, "raised")   \* mutant: one more exception
                /\ UNCHANGED <<tries, healthy, world>>
Refused(t) == /\ ~token /\ Leave(t, "refused")
              /\ UNCHANGED <<tries, healthy, world>>

\* A status or transport error: slept on and tried again while attempts are left.
Retried(t) == IF tries[t] < Attempts - 1
              THEN Leave(t, "backoff") /\ tries' = [tries EXCEPT ![t] = @ + 1]
              ELSE Leave(t, "raised") /\ UNCHANGED tries
Dropped(t) == /\ faults < MaxFaults /\ faults' = faults + 1 /\ Retried(t)
              /\ UNCHANGED <<healthy, token, turns, restarts>>

\* Any other status: raised at once.
Fatal(t) == /\ faults < MaxFaults /\ faults' = faults + 1 /\ Leave(t, "raised")
            /\ UNCHANGED <<tries, healthy, token, turns, restarts>>

Backoff(t) == /\ at[t] = "backoff" /\ Goto(t, "wait")
              /\ UNCHANGED <<tries, holder, healthy, world>>

\* The health flag, once the lock is free again.
NotCleared(t) == /\ at[t] = "ok" /\ Goto(t, "done")   \* mutant: mark_ok forgotten
                 /\ UNCHANGED <<tries, holder, healthy, world>>
MarkOk(t) == /\ at[t] = "ok" /\ Goto(t, "done") /\ healthy' = TRUE
             /\ UNCHANGED <<tries, holder, world>>
MarkAuthError(t) == /\ at[t] = "refused" /\ Goto(t, "dead") /\ healthy' = FALSE
                    /\ UNCHANGED <<tries, holder, world>>

\* The refresh token expires or is revoked, or is accepted again.
Turn == /\ turns < MaxTurns /\ turns' = turns + 1 /\ token' = ~token
        /\ UNCHANGED <<at, tries, holder, healthy, faults, restarts>>

\* The process starts afresh.
Restart == /\ restarts < MaxRestarts /\ restarts' = restarts + 1
           /\ at' = [t \in Threads |-> "out"] /\ tries' = [t \in Threads |-> 0]
           /\ holder' = Free /\ healthy' = TRUE
           /\ UNCHANGED <<token, faults, turns>>

\* The steps of a call that leave Google as it is.
CallStep(t) == \/ Enter(t) \/ Refused(t) \/ Fatal(t) \/ Backoff(t)
               \/ MarkOk(t) \/ MarkAuthError(t)

CallNext == \/ \E t \in Threads : \/ Ask(t) \/ Return(t) \/ CallStep(t)
                                  \/ Through(t) \/ Dropped(t)
            \/ Turn \/ Restart

\* A call goes on by itself, and a thread that waits for the lock gets it: it
\* is held for one request only, and waiters sleep between their attempts.
CallFairness(t) == /\ WF_callVars(Refused(t)) /\ WF_callVars(Through(t))
                   /\ WF_callVars(Backoff(t)) /\ WF_callVars(MarkOk(t))
                   /\ WF_callVars(MarkAuthError(t)) /\ SF_callVars(Enter(t))

\* Callers call again and again: the polls do, every few seconds.
CallSpec == /\ CallInit /\ [][CallNext]_callVars
            /\ \A t \in Threads : CallFairness(t) /\ WF_callVars(Ask(t))

-----------------------------------------------------------------------------
(* Properties.                                                              *)

\* While Google refuses the token, /health says so in the end and goes on
\* saying so: a success that was under way (mark_ok runs after the lock is
\* released) can clear the flag once, and not for good.
OutageStays == <>[]~token => <>[]~healthy

\* Once the token is good again the outage is over in /health too: no failure
\* marked late keeps it alive.
OutageClears == <>[]token => <>[]healthy

\* A call that waits for the lock ends, unless the process does: the lock is
\* released on every way out of the request, the retries are bounded.
CallsEnd == \A t \in Threads : at[t] = "wait" ~> at[t] \in Over \cup {"out"}
=============================================================================
