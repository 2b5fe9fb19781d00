------------------------------ MODULE RetryDelay ------------------------------
(***************************************************************************)
(* How long a failed delivery waits: calculateBackoff of                   *)
(* internal/outbox/outbox.go, in the arithmetic of a signed integer of     *)
(* Width bits (time.Duration has 64).                                      *)
(***************************************************************************)
EXTENDS Integers

CONSTANTS
  Width,  \* bits of an integer
  Half    \* integers below zero, as many as from zero up

ASSUME WidthAssumption == Width \in Nat /\ Width >= 3
ASSUME HalfAssumption  == Half \in Nat \ {0} /\ Half = 2^(Width - 1)

\* Arithmetic, which the provers do not know: what a shift by one more place does.
ASSUME PowersOfTwo == 2^0 = 1 /\ \A n \in 0..Width : 2^(n + 1) = 2 * 2^n

\* The integer that Width bits make of n.
Wrap(n) == ((n + Half) % (2 * Half)) - Half

Biggest == Half - 1

\* Variant: the product is compared, after it may have overflowed.
ScaleMultiplying(initial, factor, max) ==
  IF Wrap(initial * factor) > max THEN max ELSE Wrap(initial * factor)

\* initial times factor, or max where that is less: division first, so that the
\* product is only taken where it fits.
Scale(initial, factor, max) ==
  IF factor > max \div initial THEN max ELSE Wrap(initial * factor)

CalculateBackoff(retryCount, initial, max) ==
  LET shift == retryCount - 1
  IN  IF retryCount <= 0 THEN initial
      ELSE IF shift >= Width - 2 THEN max
      ELSE Scale(initial, Wrap(2^shift), max)

-----------------------------------------------------------------------------
(* What the delays promise, over all small configurations. *)

Duration == 1..Biggest
Attempt  == 1..Width + 1

\* The delay doubles from attempt to attempt until it reaches the maximum and
\* stays there.
Doubles(initial, max) ==
  \A n \in Attempt :
    LET delay == CalculateBackoff(n, initial, max)
        next  == CalculateBackoff(n + 1, initial, max)
    IN  /\ delay \in 1..max
        /\ delay <= next
        /\ next = 2 * delay \/ next = max
        /\ n = 1 => delay = IF initial <= max THEN initial ELSE max

Erratic == {d \in Duration \X Duration : ~Doubles(d[1], d[2])}

=============================================================================
