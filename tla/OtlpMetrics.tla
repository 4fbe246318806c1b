---------------------------- MODULE OtlpMetrics -----------------------------
(***************************************************************************)
(* The instruments of pkg/metrics: each gauge is kept for Prometheus from  *)
(* the start, and once more for an OTLP collector as soon as InitOTLP has  *)
(* created its instrument.  InitOTLP tries once for its caller and, when   *)
(* that fails, goes on in a goroutine while the process already counts.    *)
(*                                                                         *)
(* An instrument is a variable of an interface type, two words that are    *)
(* written one after the other and read without a lock.  A goroutine that  *)
(* counts in between calls a method of an instrument that is not there and *)
(* panics: created = "half".  A later attempt gives the variable another   *)
(* instrument of the same type, which leaves nothing half written; otlp[i] *)
(* is what the collector is told for i by all of them together.            *)
(* The time between attempts is left out.                                  *)
(***************************************************************************)
EXTENDS Integers, Sequences

CONSTANTS
  Order,      \* the instruments, as tryInit creates them
  MaxFaults   \* bound on instruments that cannot be created

VARIABLES
  prom,       \* the Prometheus gauges
  otlp,       \* what the collector was told
  created,    \* "no", "half", "yes", or "dud" for one that measures nothing
  attempt,    \* where InitOTLP is
  next,       \* number of the instrument that is created
  inBack,     \* the attempts are those of the goroutine
  faults,
  torn        \* a goroutine has used half an instrument

countVars == <<prom, otlp>>
tryVars == <<created, attempt, next, inBack, faults>>
metricVars == <<countVars, tryVars, torn>>

Names == {Order[i] : i \in 1..Len(Order)}

Init ==
  /\ prom = [i \in Names |-> 0] /\ otlp = [i \in Names |-> 0]
  /\ created = [i \in Names |-> "no"]
  /\ attempt = "none" /\ next = 1
  /\ inBack = FALSE /\ faults = 0 /\ torn = FALSE

-----------------------------------------------------------------------------
(* Inc..., Dec... and Add... of one gauge *)

\* (Mutant: Prometheus is not counted for when there is an instrument.)
CountOnce(i, d) ==
  /\ IF created[i] = "yes" THEN otlp' = [otlp EXCEPT ![i] = @ + d] /\ UNCHANGED prom
                           ELSE prom' = [prom EXCEPT ![i] = @ + d] /\ UNCHANGED otlp
  /\ torn' = (created[i] = "half")
  /\ UNCHANGED tryVars

Count(i, d) ==
  /\ torn' = (created[i] = "half")
  /\ otlp' = IF created[i] = "yes" THEN [otlp EXCEPT ![i] = @ + d] ELSE otlp
  /\ prom' = IF torn' THEN prom ELSE [prom EXCEPT ![i] = @ + d]
  /\ UNCHANGED tryVars

-----------------------------------------------------------------------------
(* InitOTLP *)

InitOTLP ==
  /\ attempt = "none"
  /\ attempt' = "try"
  /\ UNCHANGED <<countVars, created, next, inBack, faults, torn>>

\* The goroutine waits before the next attempt.
Fail == attempt' = "wait" /\ inBack' = TRUE /\ next' = 1

\* The name of the collector is not resolved, or there is no exporter.
Unreachable ==
  /\ attempt = "try" /\ Fail
  /\ UNCHANGED <<countVars, created, faults, torn>>

Exporter ==
  /\ attempt = "try"
  /\ attempt' = "create"
  /\ UNCHANGED <<countVars, created, next, inBack, faults, torn>>

Create ==
  /\ attempt = "create" /\ next <= Len(Order)
  /\ LET i == Order[next] IN
       IF created[i] = "no" THEN created' = [created EXCEPT ![i] = "half"] /\ UNCHANGED next
                            ELSE created' = [created EXCEPT ![i] = "yes"] /\ next' = next + 1
  /\ UNCHANGED <<countVars, attempt, inBack, faults, torn>>

\* The library returns an instrument with the error, and it is assigned, also
\* in the place of one that an earlier attempt created.
CreateFails ==
  /\ attempt = "create" /\ next <= Len(Order) /\ faults < MaxFaults
  /\ created[Order[next]] # "no"
  /\ created' = [created EXCEPT ![Order[next]] = "dud"]
  /\ faults' = faults + 1 /\ Fail
  /\ UNCHANGED <<countVars, torn>>

Created ==
  /\ attempt = "create" /\ next > Len(Order)
  /\ attempt' = "done"
  /\ UNCHANGED <<countVars, created, next, inBack, faults, torn>>

\* (Mutant: the goroutine gives up.)
NoRetry == FALSE

Retry ==
  /\ attempt = "wait"
  /\ attempt' = "try"
  /\ UNCHANGED <<countVars, created, next, inBack, faults, torn>>

Try == Unreachable \/ Exporter \/ Create \/ CreateFails \/ Created
=============================================================================
