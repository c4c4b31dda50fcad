---------------------------- MODULE TokenBucket ----------------------------
(***************************************************************************)
(* The rate limiter: one token bucket per provider in Redis, which the     *)
(* Lua script refills by the time since the last request and charges, in   *)
(* one atomic step.                                                        *)
(*                                                                         *)
(* A level is counted in ticks of refill: a token is worth Unit of them,   *)
(* and the window (a minute) is Max * Unit ticks.  The time since the last *)
(* request is held up to the window, after which the bucket is full; a     *)
(* full bucket is also what the script assumes when the key has expired,   *)
(* two windows after its last use.                                         *)
(***************************************************************************)
EXTENDS Naturals

CONSTANTS
  Providers,  \* providers with a bucket
  Max,        \* tokens in a full bucket: the provider's RPM limit
  Unit,       \* ticks that refill one token
  Span        \* bound: ticks for which granted requests are counted

ASSUME BucketAssumption ==
  Providers # {} /\ Max \in Nat \ {0} /\ Unit \in Nat \ {0} /\ Span \in Nat

VARIABLES
  bucket,  \* tokens at the last request, and the ticks since
  watch    \* history: the tokens granted by one provider since some request

bucketVars == <<bucket, watch>>

Cap == Max * Unit
MinOf(x, y) == IF x <= y THEN x ELSE y

BucketTypeOK ==
  /\ bucket \in [Providers -> [tokens : 0..Cap, idle : 0..Cap]]
  /\ watch \in [provider : Providers, on : BOOLEAN, granted : Nat, age : 0..Span]

\* Nothing is observed; the provider is then of no account.
Unwatched == [provider |-> CHOOSE p \in Providers : TRUE, on |-> FALSE, granted |-> 0, age |-> 0]

BucketInit ==
  /\ bucket = [p \in Providers |-> [tokens |-> Cap, idle |-> Cap]]
  /\ watch = Unwatched

\* Mutant: no maximum is applied to what is refilled.
LevelUnbounded(p) == bucket[p].tokens + bucket[p].idle

\* tokens + refill, at most max
Level(p) == MinOf(Cap, bucket[p].tokens + bucket[p].idle)

Granted(p) == Level(p) >= Unit

\* An observer counts what one provider grants, from any request of its choice on.
Observe(p) ==
  LET one == IF Granted(p) THEN 1 ELSE 0 IN
  \/ watch.on /\ watch' = IF p = watch.provider
                          THEN [watch EXCEPT !.granted = @ + one] ELSE watch
  \/ ~watch.on /\ watch' \in {watch, [provider |-> p, on |-> TRUE, granted |-> one, age |-> 0]}

\* Mutants: a token is taken whether there is one or not; a refused request
\* stores the time but not the refill.
RequestUnchecked(p) ==
  /\ bucket' = [bucket EXCEPT ![p] = [tokens |-> Level(p) - Unit, idle |-> 0]]
  /\ Observe(p)

RequestForgetting(p) ==
  /\ bucket' = [bucket EXCEPT ![p] =
       [tokens |-> IF Granted(p) THEN Level(p) - Unit ELSE @.tokens, idle |-> 0]]
  /\ Observe(p)

\* The script: refill, take a token if there is one, store both fields.
Request(p) ==
  /\ bucket' = [bucket EXCEPT ![p] =
       [tokens |-> IF Granted(p) THEN Level(p) - Unit ELSE Level(p), idle |-> 0]]
  /\ Observe(p)

Elapse ==
  /\ bucket' = [p \in Providers |-> [bucket[p] EXCEPT !.idle = MinOf(Cap, @ + 1)]]
  /\ watch' = IF ~watch.on THEN watch
              ELSE IF watch.age < Span THEN [watch EXCEPT !.age = @ + 1]
              ELSE Unwatched

BucketNext == Elapse \/ \E p \in Providers : Request(p)

BucketSpec == BucketInit /\ [][BucketNext]_bucketVars

-----------------------------------------------------------------------------

\* However requests are spread, a provider grants no more in any stretch of time
\* than a full bucket and what is refilled in that time: twice the limit in the
\* worst minute, the limit per minute in the long run.
RateBound == watch.on => watch.granted * Unit <= Cap + watch.age

=============================================================================
