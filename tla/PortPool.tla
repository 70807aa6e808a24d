------------------------------ MODULE PortPool ------------------------------
(***************************************************************************)
(* pkg/pool.go: PoolInts, the pool of dynamic frontend ports.              *)
(*                                                                         *)
(* The pool keeps two maps, free and allocated (here the sets of their     *)
(* keys).  Every method takes the pool's own mutex for its whole body, so  *)
(* each one is a single atomic step.  The mutex is NOT the service's: the  *)
(* accept goroutine of a frontend returns its port without holding         *)
(* MuxTunnelService.mtx.                                                   *)
(***************************************************************************)
EXTENDS Naturals

CONSTANTS
    DynPort,        \* lowerBound: the first dynamic port (--dynport)
    DynPortCount    \* cap: how many there are (--dynportcount)

(* The port base is positive, so that the value 0 is never an element: 0   *)
(* stands for "any element" in a request and for "none" in an answer.      *)
ASSUME PoolAssumption == DynPort \in Nat \ {0} /\ DynPortCount \in Nat

VARIABLES
    free,           \* elements that may be handed out
    allocated       \* elements handed out and not returned

poolVars == <<free, allocated>>

-----------------------------------------------------------------------------

NewPoolForRange == {DynPort + i : i \in {j \in 0..DynPortCount : j < DynPortCount}}

PoolInit ==
    /\ free = NewPoolForRange
    /\ allocated = {}

AnyElement == 0     \* the argument that lets the pool choose
NoElement == 0      \* what GetElement returns beside an error

(* GetElement(v) returning r.  It fails when nothing is free or when the   *)
(* explicit element is not free, whether it is allocated or was never part *)
(* of the pool.  With no explicit element the choice is Go's map iteration *)
(* order, that is, any free element.                                       *)
GetElement(v, r) ==
    \/ /\ r = NoElement
       /\ free = {} \/ (v # AnyElement /\ v \notin free)
       /\ UNCHANGED poolVars
    \/ /\ r \in free
       /\ v \in {AnyElement, r}
       /\ free' = free \ {r}
       /\ allocated' = allocated \cup {r}

(* Mutant: the element is put back without asking whether it was handed    *)
(* out by this pool.                                                       *)
ReturnElementUnchecked(v) ==
    /\ free' = free \cup {v}
    /\ allocated' = allocated \ {v}

(* Mutant: the element leaves allocated and is not put back in free.       *)
ReturnElementForgotten(v) ==
    /\ free' = free
    /\ allocated' = allocated \ {v}

(* Mutant: the element is never put back. *)
ReturnElementNever(v) == UNCHANGED poolVars

(* ReturnElement(v): nothing happens to an element that is not allocated.  *)
ReturnElement(v) ==
    /\ free' = IF v \in allocated THEN free \cup {v} ELSE free
    /\ allocated' = allocated \ {v}

-----------------------------------------------------------------------------

(* Whatever sequence of calls the service makes - ports that were never    *)
(* allocated returned on an error path, the same port returned twice,      *)
(* ports outside the range - the two maps of PoolInts always split the     *)
(* range NewPoolForRange built: no port is lost and none is invented.      *)
PoolPartition ==
    /\ free \cap allocated = {}
    /\ free \cup allocated = NewPoolForRange

=============================================================================
