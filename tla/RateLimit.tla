----------------------------- MODULE RateLimit ------------------------------
(***************************************************************************)
(* A token bucket of one client (src/catchem/rate_limit.py).  allow()      *)
(* reads the clock before it takes the lock, so a request that is held up  *)
(* in between arrives with a moment the bucket has already refilled for.   *)
(* The clamp lets it earn nothing, and last_refill is set back all the     *)
(* same: what lies between is credited again.                              *)
(*                                                                         *)
(* Time and tokens are counted in units in which both are integers.        *)
(***************************************************************************)
EXTENDS Integers

CONSTANTS
    Caller,    \* requests that may be in allow() at once
    Capacity,   \* capacity
    Rate,       \* tokens earned per unit of time
    Cost,       \* what a request may cost
    MaxTime     \* bound on the clock

ASSUME RateAssumption ==
    /\ Capacity \in Nat \ {0} /\ Rate \in Nat \ {0}
    /\ Cost \subseteq Nat \ {0} /\ MaxTime \in Nat

None == -1

VARIABLES
    clock,
    seen,       \* request -> the clock it read, or None when there is none
    tokens,     \* b.tokens
    last,       \* b.last_refill; None before the first request of the client
    born,       \* history: when the bucket was made
    spent,      \* history: tokens granted
    rewound     \* history: by how much last_refill was set back in all

rateVars == <<clock, seen, tokens, last, born, spent, rewound>>

RateTypeOK ==
    /\ clock \in 0..MaxTime
    /\ seen \in [Caller -> 0..MaxTime \cup {None}]
    /\ tokens \in 0..Capacity
    /\ last \in 0..MaxTime \cup {None} /\ born \in 0..MaxTime
    /\ spent \in Nat /\ rewound \in Nat

RateInit ==
    /\ clock = 0
    /\ seen = [r \in Caller |-> None]
    /\ tokens = Capacity /\ last = None /\ born = 0
    /\ spent = 0 /\ rewound = 0

Arrive(r) ==
    /\ seen[r] = None
    /\ seen' = [seen EXCEPT ![r] = clock]
    /\ UNCHANGED <<clock, tokens, last, born, spent, rewound>>

(* A bucket is made full, when its first request holds the lock. *)
LastRefill == IF last = None THEN clock ELSE last
Elapsed(r) == IF seen[r] > LastRefill THEN seen[r] - LastRefill ELSE 0
Refilled(r) == IF tokens + Elapsed(r) * Rate > Capacity THEN Capacity ELSE tokens + Elapsed(r) * Rate
Rewind(r) == IF seen[r] < LastRefill THEN LastRefill - seen[r] ELSE 0

(* Mutant: a request that is denied leaves the time it was refilled for. *)
AllowForgettingDenial(r, cost) ==
    /\ seen[r] # None
    /\ seen' = [seen EXCEPT ![r] = None]
    /\ born' = IF last = None THEN clock ELSE born
    /\ rewound' = rewound + Rewind(r)
    /\ \/ /\ Refilled(r) >= cost
          /\ tokens' = Refilled(r) - cost /\ spent' = spent + cost
          /\ last' = seen[r]
       \/ /\ Refilled(r) < cost
          /\ tokens' = Refilled(r) /\ spent' = spent
          /\ last' = LastRefill
    /\ UNCHANGED clock

(* Under the lock. *)
Allow(r, cost) ==
    /\ seen[r] # None
    /\ seen' = [seen EXCEPT ![r] = None]
    /\ born' = IF last = None THEN clock ELSE born
    /\ rewound' = rewound + Rewind(r)
    /\ last' = seen[r]
    /\ \/ /\ Refilled(r) >= cost
          /\ tokens' = Refilled(r) - cost /\ spent' = spent + cost
       \/ /\ Refilled(r) < cost
          /\ tokens' = Refilled(r) /\ spent' = spent
    /\ UNCHANGED clock

Pass ==
    /\ clock < MaxTime
    /\ clock' = clock + 1
    /\ UNCHANGED <<seen, tokens, last, born, spent, rewound>>

RateNext ==
    \/ \E r \in Caller : Arrive(r) \/ \E c \in Cost : Allow(r, c)
    \/ Pass

RateSpec == RateInit /\ [][RateNext]_rateVars

-----------------------------------------------------------------------------
(* "Refills at `rate` tokens/sec, max `capacity`": a client is never granted *)
(* more than the bucket held and earned since.  It earns the time since the  *)
(* bucket was made, once, and once more whatever a late request set back.    *)
BurstBounded == spent <= Capacity + Rate * (clock - born + rewound)

=============================================================================
