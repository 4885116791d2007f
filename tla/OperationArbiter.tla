-------------------------- MODULE OperationArbiter ---------------------------
(***************************************************************************)
(* WorkbenchOperationState: the one process-local arbiter that jobs,       *)
(* compatibility checks and credential writes share.  At most one of them  *)
(* is admitted at a time, and checks are limited to MaxStarts in any       *)
(* window of Window seconds of the monotonic clock.                        *)
(*                                                                         *)
(* A lease is an identity token: an owner is admitted at most once, so the *)
(* owner stands for the lease it was given.  `tripped` holds the owners    *)
(* whose CityCognitionCancellation has been cancelled.                     *)
(***************************************************************************)
EXTENDS Naturals, Sequences

CONSTANTS Owner,      \* the operations that may ever ask for a lease
          NoOwner,    \* no lease is held
          MaxStarts,  \* checks admitted per window
          Window,     \* the window, in seconds
          Horizon     \* bound on the clock

ASSUME ArbiterAssumption ==
  /\ NoOwner \notin Owner
  /\ MaxStarts \in Nat \ {0}
  /\ Window \in Nat \ {0}
  /\ Horizon \in Nat

Kinds == {"job", "check", "credential"}

VARIABLES active,     \* the lease held, with its kind
          opsClosed,  \* no operation is admitted any more
          issued,     \* owners that were ever given a lease
          tripped,    \* owners whose cancellation token is cancelled
          starts,     \* the deque of recent check admissions
          now,        \* the monotonic clock
          began       \* history: every check admission, in order

arbiter == <<active, opsClosed, issued, tripped, starts, now, began>>
rate == <<starts, now, began>>

NoLease == [kind |-> "none", owner |-> NoOwner]

Lease(kind, o) == [kind |-> kind, owner |-> o]

ArbiterInit ==
  /\ active = NoLease
  /\ opsClosed = FALSE
  /\ issued = {}
  /\ tripped = {}
  /\ starts = <<>>
  /\ now = 0
  /\ began = <<>>

-----------------------------------------------------------------------------
BeginAdmitted(o) ==
  /\ ~ opsClosed
  /\ active = NoLease
  /\ o \notin issued

(* A slip: a start leaves the window one second early. *)
Outside_Early(t) == t + Window <= now + 1

(* A slip: a start stays in the deque when it is exactly a window old. *)
Outside_Late(t) == t + Window < now

(* A start leaves the deque once it is a whole window old. *)
Outside(t) == t + Window <= now

(* What pruning keeps: the starts from the first one inside the window on. *)
Recent ==
  LET inside == {i \in 1..Len(starts) : ~ Outside(starts[i])}
  IN  IF inside = {}
      THEN <<>>
      ELSE SubSeq(starts, CHOOSE i \in inside : \A j \in inside : i <= j, Len(starts))

TakeLease(kind, o) ==
  /\ active' = Lease(kind, o)
  /\ issued' = issued \cup {o}
  /\ UNCHANGED <<opsClosed, tripped, now>>

(* A job or a credential write begins. *)
BeginPlain(kind, o) ==
  /\ BeginAdmitted(o)
  /\ TakeLease(kind, o)
  /\ UNCHANGED <<starts, began>>

BeginCheck(o) ==
  /\ BeginAdmitted(o)
  /\ Len(Recent) < MaxStarts
  /\ TakeLease("check", o)
  /\ starts' = Append(Recent, now)
  /\ began' = Append(began, now)

(* Refused for its rate, a check still prunes the deque. *)
CheckRateLimited ==
  /\ ~ opsClosed
  /\ active = NoLease
  /\ Len(Recent) >= MaxStarts
  /\ starts' = Recent
  /\ UNCHANGED <<active, opsClosed, issued, tripped, now, began>>

(* finish: only the holder's own lease is released. *)
Released(o) == IF active.owner = o THEN NoLease ELSE active

Finish(o) ==
  /\ o \in issued
  /\ active' = Released(o)
  /\ UNCHANGED <<opsClosed, issued, tripped, rate>>

(* Only a check's lease carries a token. *)
CheckHeld == IF active.kind = "check" THEN {active.owner} ELSE {}

CancelCheck ==
  /\ CheckHeld # {}
  /\ tripped' = tripped \cup CheckHeld
  /\ UNCHANGED <<active, opsClosed, issued, rate>>

(* close: admission ends, a check is cancelled and keeps its lease. *)
CloseOperations ==
  /\ opsClosed' = TRUE
  /\ tripped' = tripped \cup CheckHeld
  /\ UNCHANGED <<active, issued, rate>>

Tick ==
  /\ now < Horizon
  /\ now' = now + 1
  /\ UNCHANGED <<active, opsClosed, issued, tripped, starts, began>>

ArbiterNext ==
  \/ \E o \in Owner :
       \/ BeginPlain("job", o)
       \/ BeginPlain("credential", o)
       \/ BeginCheck(o)
       \/ Finish(o)
  \/ CheckRateLimited
  \/ CancelCheck
  \/ CloseOperations
  \/ Tick

ArbiterSpec == ArbiterInit /\ [][ArbiterNext]_arbiter

-----------------------------------------------------------------------------
(* The shape of every variable. *)
ArbiterTypeOK ==
  /\ active \in {NoLease} \cup [kind : Kinds, owner : Owner]
  /\ opsClosed \in BOOLEAN
  /\ issued \subseteq Owner
  /\ tripped \subseteq Owner
  /\ starts \in Seq(Nat)
  /\ now \in Nat
  /\ began \in Seq(Nat)

(* However starts, refusals, prunings and finishes interleave, no window   *)
(* of the clock ever sees more than MaxStarts checks admitted: a check is  *)
(* at least a window later than the MaxStarts-th one before it.            *)
RateHolds ==
  \A i \in 1..Len(began) :
    i + MaxStarts <= Len(began) => began[i] + Window <= began[i + MaxStarts]

(* The limit is not stricter than stated either: a check that would be     *)
(* refused for the rate really has MaxStarts admissions behind it that are *)
(* all younger than a window.                                              *)
RefusedForCause ==
  Len(Recent) >= MaxStarts =>
    /\ Len(began) >= MaxStarts
    /\ began[Len(began) - MaxStarts + 1] + Window > now
=============================================================================
