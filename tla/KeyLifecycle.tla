---------------------------- MODULE KeyLifecycle ----------------------------
(***************************************************************************)
(* What the key store promises about one API key, whoever uses it: a key   *)
(* is put into service by an operator who seeds it, runs out at its quota, *)
(* comes back with a clean count, and once disabled stays disabled until   *)
(* an operator seeds it again.  An environment key is not seeded but       *)
(* tracked from its first use.  SecretsStore implements this               *)
(* specification.                                                          *)
(***************************************************************************)
EXTENDS Naturals

CONSTANTS Keys, Managed, NoKey, Quota

VARIABLES status, usage,
          seeding   \* the key an operator is about to put into service

vars == <<status, usage, seeding>>

Set(k, s, u) ==
    /\ status' = [status EXCEPT ![k] = s]
    /\ usage' = [usage EXCEPT ![k] = u]

Init ==
    /\ status = [k \in Keys |-> "absent"]
    /\ usage = [k \in Keys |-> 0]
    /\ seeding = NoKey

\* The operator decides on a key.
Nominate(k) ==
    /\ seeding = NoKey
    /\ seeding' = k
    /\ UNCHANGED <<status, usage>>

\* Seeding uses the decision up.  It is the only way out of "disabled", and for a
\* managed key the only way into the store.
Seed(k) ==
    /\ seeding = k
    /\ seeding' = NoKey
    /\ Set(k, "active", 0)

\* The first use of an environment key.
Track(k) ==
    /\ status[k] = "absent"
    /\ Set(k, "active", 0)
    /\ UNCHANGED seeding

\* Spending reaches "exhausted" exactly when the quota is reached, and never
\* brings a key back.
Spend(k) ==
    /\ status[k] # "absent"
    /\ LET u == usage[k] + 1 IN
       Set(k, IF status[k] # "disabled" /\ Quota > 0 /\ u >= Quota
              THEN "exhausted" ELSE status[k], u)
    /\ UNCHANGED seeding

Disable(k) ==
    /\ status[k] # "absent"
    /\ Set(k, "disabled", usage[k])
    /\ UNCHANGED seeding

\* A new quota window.
Recover(k) ==
    /\ status[k] = "exhausted"
    /\ Set(k, "active", 0)
    /\ UNCHANGED seeding

Next ==
    \/ \E k \in Managed : Nominate(k) \/ Seed(k)
    \/ \E k \in Keys \ Managed : Track(k)
    \/ \E k \in Keys : Spend(k) \/ Disable(k) \/ Recover(k)

Spec == Init /\ [][Next]_vars
=============================================================================
