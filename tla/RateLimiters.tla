---------------------------- MODULE RateLimiters ----------------------------
(***************************************************************************)
(* The two rate limiters under one configuration.  createBridgeRuntime     *)
(* (src/runtime.ts) makes one of them, for the limit per minute and the    *)
(* backend that config.ts reads from the environment; any positive number  *)
(* is a limit (asNum), a fraction too.                                     *)
(***************************************************************************)
EXTENDS RedisRateLimiter

VARIABLES
  backend,     \* config.storeBackend
  counters,    \* see MemoryRateLimiter
  allowed

Memory == INSTANCE MemoryRateLimiter

ASSUME MemoryAssumption == Memory!LimiterParameters

memoryVars == <<counters, allowed>>
redisVars  == <<pc, subject, stamp, count, expiry, granted, leaked>>

LimiterInit ==
  /\ backend \in {"memory", "redis"}
  /\ Init
  /\ Memory!Init

LimiterNext ==
  \/ backend = "redis" /\ Next /\ UNCHANGED <<backend, memoryVars>>
  \/ backend = "memory" /\ Memory!Next /\ UNCHANGED <<backend, redisVars>>

LimiterSpec == LimiterInit /\ [][LimiterNext]_<<vars, backend, memoryVars>>

-----------------------------------------------------------------------------
(* Properties *)

TypeOK ==
  /\ backend \in {"memory", "redis"}
  /\ Memory!TypeOK
  /\ count \in [Key -> 0 .. MaxCount]
  /\ expiry \in [Key -> 0 .. MaxTime + KeyTtl]
  /\ pc \in [Call -> {"idle", "incr", "expire"}]

\* Any minute sees at most twice the limit less one of a sender's messages:
\* the two windows it can touch, without the first message of the earlier
\* one.  The limiter in memory rounds a fraction up (memory-stores.ts:46),
\* that of Redis down (WindowBound).
MinuteBound == Memory!MinuteBound

\* The counter of an open window is the number of messages let through since
\* it opened: nothing forgets a window before its time.
CounterExact == Memory!CounterExact

=============================================================================
