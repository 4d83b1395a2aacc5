------------------------------- MODULE Router -------------------------------
(***************************************************************************)
(* The provider router of app/providers/router.py: chat() walks the         *)
(* provider chain for one turn, priming each provider with its first token, *)
(* retrying, failing over or giving up by the kind of error.                *)
(*                                                                          *)
(* Turns run in worker threads and share the Router object.  A turn gives   *)
(* up the processor while it waits for a provider or sleeps; what follows   *)
(* an answer is one step.  Providers are their positions in the configured  *)
(* chain; 0 stands for None.                                                *)
(***************************************************************************)
EXTENDS Naturals

CONSTANTS
  NProviders,  \* len(config.providers)
  Keyless,     \* the providers with no api_key_env (local ones)
  Offline,     \* config.offline
  MaxRetries,  \* config.retry.max_retries
  Turns        \* the calls of chat(); each is used once

(* An empty chain is refused by __init__.                                   *)
ASSUME RouterAssumption ==
  /\ NProviders \in Nat \ {0}
  /\ Keyless \subseteq 1 .. NProviders
  /\ Offline \in BOOLEAN
  /\ MaxRetries \in Nat

VARIABLES
  stage,         \* where the generator of each turn is
  at,            \* the provider the turn is trying (p)
  attempt,       \* the loop variable of the retries
  record,        \* routed.record: the provider whose telemetry is attached
  tries,         \* history: how often each turn has called each provider
  verdict,       \* history: the class of the last error of each such pair
  lastProvider,  \* _last_provider
  authSurfaced,  \* _auth_surfaced
  authLog        \* history: how often a provider's auth failure was logged

vars == <<stage, at, attempt, record, tries, verdict, lastProvider,
          authSurfaced, authLog>>

Providers == 1 .. NProviders

(* Mutant: offline mode is ignored.                                         *)
EligibleOnline == Providers

(* _eligible: offline mode keeps the keyless providers only.                *)
Eligible == {p \in Providers : Offline => p \in Keyless}

(* What a provider can answer instead of a first token, and _classify.      *)
Errors == {"rate_limited", "server_error", "network", "refused", "auth",
           "bad_request"}

Classify(e) ==
  CASE e \in {"rate_limited", "server_error", "network"} -> "retry"
    [] e = "refused"     -> "failover"
    [] e = "auth"        -> "auth"
    [] e = "bad_request" -> "fatal"

Init ==
  /\ stage = [t \in Turns |-> "idle"]
  /\ at = [t \in Turns |-> 0]
  /\ attempt = [t \in Turns |-> 0]
  /\ record = [t \in Turns |-> 0]
  /\ tries = [t \in Turns |-> [p \in Providers |-> 0]]
  /\ verdict = [t \in Turns |-> [p \in Providers |-> "none"]]
  /\ lastProvider = 0
  /\ authSurfaced = {}
  /\ authLog = [p \in Providers |-> 0]

Enter(t, s) == stage' = [stage EXCEPT ![t] = s]

(* The outer loop: the next provider of the chain, or RouterError.          *)
TryNext(t, candidates) ==
  IF candidates = {}
    THEN Enter(t, "failed") /\ UNCHANGED <<at, attempt>>
    ELSE \E p \in candidates :
           /\ \A q \in candidates : p <= q
           /\ Enter(t, "calling")
           /\ at' = [at EXCEPT ![t] = p]
           /\ attempt' = [attempt EXCEPT ![t] = 0]

After(p) == {q \in Eligible : q > p}

(* The first pull of the stream; chat() itself only builds the generator.   *)
Start(t) ==
  /\ stage[t] = "idle"
  /\ TryNext(t, Eligible)
  /\ UNCHANGED <<record, tries, verdict, lastProvider, authSurfaced, authLog>>

CountCall(t) == tries' = [tries EXCEPT ![t][at[t]] = @ + 1]

(* A first token commits the turn to its provider.                          *)
FirstToken(t) ==
  /\ stage[t] = "calling"
  /\ CountCall(t)
  /\ record' = [record EXCEPT ![t] = at[t]]
  /\ lastProvider' = at[t]
  /\ Enter(t, "serving")
  /\ UNCHANGED <<at, attempt, verdict, authSurfaced, authLog>>

(* A stream without a token is a success, but status() does not see it.     *)
EmptyReply(t) ==
  /\ stage[t] = "calling"
  /\ CountCall(t)
  /\ record' = [record EXCEPT ![t] = at[t]]
  /\ Enter(t, "served")
  /\ UNCHANGED <<at, attempt, verdict, lastProvider, authSurfaced, authLog>>

CallFails(t, e) ==
  /\ stage[t] = "calling"
  /\ CountCall(t)
  /\ verdict' = [verdict EXCEPT ![t][at[t]] = Classify(e)]
  /\ UNCHANGED <<record, lastProvider>>

Retry(t) ==
  /\ attempt[t] < MaxRetries
  /\ \E e \in Errors : Classify(e) = "retry" /\ CallFails(t, e)
  /\ Enter(t, "backing_off")
  /\ UNCHANGED <<at, attempt, authSurfaced, authLog>>

(* Mutant: the last retry is never made, and nothing comes after it.        *)
ResumeButLast(t) ==
  /\ stage[t] = "backing_off"
  /\ attempt[t] + 1 < MaxRetries
  /\ attempt' = [attempt EXCEPT ![t] = @ + 1]
  /\ Enter(t, "calling")
  /\ UNCHANGED <<at, record, tries, verdict, lastProvider, authSurfaced, authLog>>

(* _backoff has slept for the retry-after or the jittered delay.            *)
Resume(t) ==
  /\ stage[t] = "backing_off"
  /\ attempt' = [attempt EXCEPT ![t] = @ + 1]
  /\ Enter(t, "calling")
  /\ UNCHANGED <<at, record, tries, verdict, lastProvider, authSurfaced, authLog>>

(* Mutant: failover at the first failure, retries left or not.              *)
FailOverEarly(t) ==
  /\ \E e \in Errors :
       Classify(e) \in {"failover", "retry"} /\ CallFails(t, e)
  /\ TryNext(t, After(at[t]))
  /\ UNCHANGED <<authSurfaced, authLog>>

(* Retries exhausted, or connection refused.                                *)
FailOver(t) ==
  /\ \E e \in Errors :
       /\ \/ Classify(e) = "failover"
          \/ Classify(e) = "retry" /\ attempt[t] = MaxRetries
       /\ CallFails(t, e)
  /\ TryNext(t, After(at[t]))
  /\ UNCHANGED <<authSurfaced, authLog>>

(* Mutant: an auth failure is logged each time.                             *)
AuthFailsLoudly(t) ==
  /\ CallFails(t, "auth")
  /\ authSurfaced' = authSurfaced \cup {at[t]}
  /\ authLog' = [authLog EXCEPT ![at[t]] = @ + 1]
  /\ TryNext(t, After(at[t]))

(* _surface_auth: logged once per provider, then failover.  CPython does    *)
(* not switch threads between the test and the add, so they are one step.   *)
AuthFails(t) ==
  /\ CallFails(t, "auth")
  /\ authSurfaced' = authSurfaced \cup {at[t]}
  /\ authLog' = IF at[t] \in authSurfaced THEN authLog
                ELSE [authLog EXCEPT ![at[t]] = @ + 1]
  /\ TryNext(t, After(at[t]))

Fatal(t) ==
  /\ \E e \in Errors : Classify(e) = "fatal" /\ CallFails(t, e)
  /\ Enter(t, "failed")
  /\ UNCHANGED <<at, attempt, authSurfaced, authLog>>

(* An exception _iterate does not catch: a malformed chunk.                 *)
Malformed(t) ==
  /\ stage[t] = "calling"
  /\ CountCall(t)
  /\ Enter(t, "broken")
  /\ UNCHANGED <<at, attempt, record, verdict, lastProvider, authSurfaced, authLog>>

(* Mutant: a stream that breaks fails over, though tokens are out.          *)
FinishStreamElsewhere(t) ==
  /\ stage[t] = "serving"
  /\ \/ Enter(t, "served") /\ UNCHANGED <<at, attempt>>
     \/ TryNext(t, After(at[t]))
  /\ UNCHANGED <<record, tries, verdict, lastProvider, authSurfaced, authLog>>

(* The rest of the stream: it ends, it breaks (with the provider's error,   *)
(* as there is no failover once a token is out), or the consumer drops it.  *)
FinishStream(t) ==
  /\ stage[t] = "serving"
  /\ \E s \in {"served", "broken", "dropped"} : Enter(t, s)
  /\ UNCHANGED <<at, attempt, record, tries, verdict, lastProvider, authSurfaced,
                 authLog>>

Step(t) ==
  \/ FirstToken(t) \/ EmptyReply(t) \/ Retry(t) \/ Resume(t) \/ FailOver(t)
  \/ AuthFails(t) \/ Fatal(t) \/ Malformed(t) \/ FinishStream(t)

Ended == {"served", "failed", "broken", "dropped"}

AllEnded == (\A t \in Turns : stage[t] \in Ended) /\ UNCHANGED vars

Next == AllEnded \/ \E t \in Turns : Start(t) \/ Step(t)

Spec == Init /\ [][Next]_vars

(* Every call is answered or times out, every sleep ends.                   *)
FairSpec == Spec /\ \A t \in Turns : WF_vars(Step(t))

-----------------------------------------------------------------------------
(* Properties                                                               *)

Stages == {"idle", "calling", "backing_off", "serving"} \cup Ended
Verdicts == {"none", "retry", "failover", "auth", "fatal"}

(* The type invariant of the router and its turns.                          *)
TypeOK ==
  /\ stage \in [Turns -> Stages]
  /\ at \in [Turns -> 0 .. NProviders]
  /\ attempt \in [Turns -> 0 .. MaxRetries]
  /\ record \in [Turns -> 0 .. NProviders]
  /\ tries \in [Turns -> [Providers -> Nat]]
  /\ verdict \in [Turns -> [Providers -> Verdicts]]
  /\ lastProvider \in 0 .. NProviders
  /\ authSurfaced \subseteq Providers
  /\ authLog \in [Providers -> Nat]

(* A turn calls no provider more than MaxRetries + 1 times, and offline it  *)
(* never calls one that needs a key.                                        *)
CallsBounded ==
  \A t \in Turns, p \in Providers :
    /\ tries[t][p] <= MaxRetries + 1
    /\ Offline /\ tries[t][p] > 0 => p \in Keyless

(* A provider that was given up in turn t: it did fail, not fatally, and a  *)
(* retryable failure was retried to the end.                                *)
GivenUp(t, p) ==
  /\ verdict[t][p] \in {"retry", "failover", "auth"}
  /\ verdict[t][p] = "retry" => tries[t][p] = MaxRetries + 1

(* A turn is served by the first provider of the chain that can: each one   *)
(* before it was given up, and none after it was called.                    *)
ServedInOrder ==
  \A t \in Turns : record[t] # 0 =>
    \A p \in Eligible : /\ p < record[t] => GivenUp(t, p)
                        /\ p > record[t] => tries[t][p] = 0

(* A turn fails only for a reason: a fatal answer, after which nobody else  *)
(* was called, or the whole chain was given up.                             *)
FailsForReason ==
  \A t \in Turns : stage[t] = "failed" =>
    \/ \A p \in Eligible : GivenUp(t, p)
    \/ \E p \in Eligible :
         verdict[t][p] = "fatal" /\ \A q \in Providers : q > p => tries[t][q] = 0

(* The chain is honoured: who serves, and whether anyone does, is decided   *)
(* by its order and the answers alone, whatever the other turns do.         *)
ChainHonoured == ServedInOrder /\ FailsForReason

(* An auth failure is surfaced once per provider and router, however many   *)
(* turns run into it, and no turn calls that provider a second time.        *)
AuthSurfacedOnce ==
  /\ \A p \in Providers : authLog[p] = IF p \in authSurfaced THEN 1 ELSE 0
  /\ \A t \in Turns, p \in Providers :
       verdict[t][p] = "auth" =>
         p \in authSurfaced /\ (at[t] = p => stage[t] = "failed")

(* A turn that has started ends.                                            *)
TurnEnds == \A t \in Turns : stage[t] # "idle" ~> stage[t] \in Ended
=============================================================================
