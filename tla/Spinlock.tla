---------------------------------- MODULE Spinlock ----------------------------------
(***************************************************************************)
(* The spinlock (sync.c), with the callers it is made for: each takes the  *)
(* lock, works, and gives it back.  Nothing in the kernel uses one yet.    *)
(***************************************************************************)
CONSTANTS Callers

VARIABLES
  locked,
  caller       \* per caller: "away", "spinning" or "inside"

lockVars == <<locked, caller>>

\* spinlock_init.
LockInit == locked = FALSE /\ caller = [c \in Callers |-> "away"]

Moves(c, from, to) == caller[c] = from /\ caller' = [caller EXCEPT ![c] = to]

\* The caller, outside sync.c.
CallSpinLock(c) == Moves(c, "away", "spinning") /\ UNCHANGED locked

\* __atomic_test_and_set gave FALSE; otherwise the loop goes round.
SpinLock(c) == ~locked /\ Moves(c, "spinning", "inside") /\ locked' = TRUE

SpinUnlock(c) == Moves(c, "inside", "away") /\ locked' = FALSE

LockNext == \E c \in Callers : CallSpinLock(c) \/ SpinLock(c) \/ SpinUnlock(c)

LockSpec == LockInit /\ [][LockNext]_lockVars

-------------------------------------------------------------------------------
\* Two callers are never inside at once.
LockExclusive ==
  \A c, d \in Callers : caller[c] = "inside" /\ caller[d] = "inside" => c = d

\* While one is inside, the byte says so, and when it is set, one is.
ByteTells == locked <=> \E c \in Callers : caller[c] = "inside"

LockTypes == locked \in BOOLEAN /\ caller \in [Callers -> {"away", "spinning", "inside"}]

LockInv == LockTypes /\ LockExclusive /\ ByteTells

===============================================================================
