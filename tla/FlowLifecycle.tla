--------------------------- MODULE FlowLifecycle ---------------------------
(***************************************************************************)
(* The pure part of the flow model: the lifecycle states and their         *)
(* predicates (enums.hpp), the guarded transition table (flow.hpp), and    *)
(* the arithmetic of 64-bit counters and generations (checked.hpp,         *)
(* identities.hpp) at a width given by the constant MaxU64.                *)
(***************************************************************************)
EXTENDS Integers

CONSTANT MaxU64          \* the largest value a std::uint64_t can hold

ASSUME WidthAssumption == MaxU64 \in Nat \ {0}

U64 == 0..MaxU64

-----------------------------------------------------------------------------
(* States and transitions.                                                 *)

Terminal == {"COMPLETED", "CANCELLED", "FAILED", "RETIRED"}

StaleOrSuperseded == {"STALE", "SUPERSEDED", "RETIRED"}

CanProgress == {"QUEUED", "ACTIVE", "BACKPRESSURED", "THROTTLED", "DRAINING"}

FlowStates ==
    {"DECLARED", "VALIDATING", "ADMITTED", "REVALIDATION_REQUIRED"}
        \cup CanProgress \cup Terminal \cup StaleOrSuperseded

\* flow_transition_allowed as the set of allowed <<from, to>> pairs.
FlowTransitions ==
    LET Ended   == {"CANCELLED", "FAILED"}
        Stopped == Ended \cup {"STALE"}
        Slowed  == {"BACKPRESSURED", "THROTTLED", "DRAINING"}
    IN  UNION {
          {"DECLARED"}      \X ({"VALIDATING", "ADMITTED"} \cup Ended),
          {"VALIDATING"}    \X ({"ADMITTED"} \cup Ended),
          {"ADMITTED"}      \X ({"QUEUED", "ACTIVE"} \cup Slowed \cup Stopped),
          {"QUEUED"}        \X ({"ACTIVE"} \cup Slowed \cup Stopped),
          {"ACTIVE"}        \X ({"COMPLETED"} \cup Slowed \cup Stopped),
          {"BACKPRESSURED"} \X ({"ACTIVE", "THROTTLED", "DRAINING", "COMPLETED"}
                                   \cup Stopped),
          {"THROTTLED"}     \X ({"ACTIVE", "DRAINING", "COMPLETED"} \cup Stopped),
          {"DRAINING"}      \X ({"COMPLETED"} \cup Stopped),
          {"STALE"}         \X {"REVALIDATION_REQUIRED"},
          {"REVALIDATION_REQUIRED"} \X {"VALIDATING", "DECLARED"} }

\* Mutant: the operations do not consult the table.
AnyTransition(from, to) == TRUE

FlowTransitionAllowed(from, to) == <<from, to>> \in FlowTransitions

-----------------------------------------------------------------------------
(* Counters.                                                               *)

\* checked::add and ByteCounter::add succeed exactly when the sum fits.
AddFits(a, b) == a <= MaxU64 - b

\* The unchecked operators + and - of std::uint64_t.
WrapAdd(a, b) == IF a + b <= MaxU64 THEN a + b ELSE a + b - (MaxU64 + 1)
WrapSub(a, b) == IF b <= a THEN a - b ELSE a - b + (MaxU64 + 1)

\* Mutant: std::max for std::min.
LargerOf(a, b) == IF a <= b THEN b ELSE a

SmallerOf(a, b) == IF a <= b THEN a ELSE b

\* Mutant: next() returns the same value.
SameGeneration(g) == g

\* Generation::next, which saturates; WorkerBootId and SourceBootId use it too.
NextGeneration(g) == IF g = MaxU64 THEN g ELSE g + 1
=============================================================================
