------------------------------- MODULE Intake -------------------------------
(***************************************************************************)
(* What a connection lets in: handleConn (internal/daemon/server.go) reads *)
(* a request through the limited decoder (RequestReader) and asks the      *)
(* connection's token bucket (internal/daemon/ratelimit.go) whether to     *)
(* serve it.  A refused request has been read from the stream all the      *)
(* same.                                                                   *)
(*                                                                         *)
(* The code keeps tokens in a float64 and reads a clock.  The model uses   *)
(* integers: one token is Token units, the clock counts ticks, and the     *)
(* bucket gains Rate units per tick, so the configured rate is             *)
(* Rate * TicksPerSecond / Token tokens per second.                        *)
(***************************************************************************)
EXTENDS Integers, RequestReader

CONSTANTS
    Rate,            \* units gained in one tick
    Token,           \* units that make one token
    TicksPerSecond,  \* ticks of the clock in a second
    MaxTime          \* bound: the clock stops here

ASSUME RateAssumption ==
    /\ Rate \in Nat \ {0}
    /\ Token \in Nat \ {0}
    /\ TicksPerSecond \in Nat \ {0}
    /\ MaxTime \in Nat

VARIABLES
    now,         \* time.Now()
    tokens,      \* rl.tokens, in units
    lastUpdate,  \* rl.lastUpdate
    grants       \* history: when each request that Allow let through arrived

vars == <<now, tokens, lastUpdate, grants>>

(* burst is int(s.rateLimit): the rate per second, truncated. *)
burst == (Rate * TicksPerSecond) \div Token

(* The bucket's capacity in units, float64(rl.burst). *)
Capacity == burst * Token

(* NewRateLimiter: the bucket starts full. *)
Init ==
    /\ now = 0
    /\ tokens = Capacity
    /\ lastUpdate = 0
    /\ grants = <<>>

(* Mutant of Refill: elapsed time is truncated to whole seconds. *)
RefillWholeSeconds(t, elapsed) ==
    LET filled == t + (elapsed \div TicksPerSecond) * TicksPerSecond * Rate
    IN  IF filled > Capacity THEN Capacity ELSE filled

(* The bucket after adding what `elapsed` ticks are worth, capped at burst. *)
Refill(t, elapsed) ==
    LET filled == t + elapsed * Rate
    IN  IF filled > Capacity THEN Capacity ELSE filled

(* A token is there for the taking: rl.tokens >= 1.0 after the refill. *)
TokenReady == Refill(tokens, now - lastUpdate) >= Token

(* Mutant of Grant: lastUpdate is not advanced, so time is paid out twice. *)
GrantKeepsTimestamp ==
    /\ TokenReady
    /\ tokens' = Refill(tokens, now - lastUpdate) - Token
    /\ grants' = Append(grants, now)
    /\ UNCHANGED <<now, lastUpdate>>

(* Allow returning true. *)
Grant ==
    /\ TokenReady
    /\ tokens' = Refill(tokens, now - lastUpdate) - Token
    /\ lastUpdate' = now
    /\ grants' = Append(grants, now)
    /\ UNCHANGED now

(* Allow returning false: the refill is kept, nothing is taken. *)
Refuse ==
    /\ ~TokenReady
    /\ tokens' = Refill(tokens, now - lastUpdate)
    /\ lastUpdate' = now
    /\ UNCHANGED <<now, grants>>

Allow == Grant \/ Refuse

Tick ==
    /\ now < MaxTime
    /\ now' = now + 1
    /\ UNCHANGED <<tokens, lastUpdate, grants>>

Next == Allow \/ Tick

Spec == Init /\ [][Next]_vars

-----------------------------------------------------------------------------
(* The bucket holds between nothing and a full burst, and its timestamp is  *)
(* never ahead of the clock.                                                *)
TypeOK ==
    /\ now \in Nat
    /\ tokens \in 0 .. Capacity
    /\ lastUpdate \in 0 .. now
    /\ grants \in Seq(0 .. now)

(* The rate limit as a client sees it: between any two requests that were   *)
(* let through, both included, there are never more than a full burst plus  *)
(* what the configured rate earns in the time between them.                 *)
WindowBound ==
    \A i, j \in 1 .. Len(grants) :
        i <= j => (j - i + 1) * Token <= Capacity + Rate * (grants[j] - grants[i])

(* A client that waits long enough for the rate to earn one token is never  *)
(* told "Rate limit exceeded": Allow refuses no request that comes that     *)
(* long after the one before it.                                            *)
PacedClientIsServed ==
    [][Rate * (now - lastUpdate) >= Token => ~Refuse]_vars

-----------------------------------------------------------------------------
(* The limiter and the reader in the handler. *)

intakeVars == <<vars, readerVars>>

IntakeInit == Init /\ ReaderInit

(* A request is decoded, and served or answered "Rate limit exceeded". *)
Request == Take /\ Allow

IntakeNext ==
    \/ Request
    \/ Fetch /\ UNCHANGED vars
    \/ Tick /\ UNCHANGED readerVars

IntakeSpec == IntakeInit /\ [][IntakeNext]_intakeVars

=============================================================================
