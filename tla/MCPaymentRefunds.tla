--------------------------- MODULE MCPaymentRefunds ---------------------------
EXTENDS PaymentRefunds

CONSTANTS pix, passenger, driver, first, second, reasonA, reasonB

B(confirmations, cancels, settlements, faults) ==
    [confirmations |-> confirmations, cancels |-> cancels,
     settlements |-> settlements, faults |-> faults]

\* Cancellations that meet and are repeated, a cancellation that meets a
\* settlement, settlements that meet and are repeated, a payment that waits
\* without a ride.
SomeOfEach == {B(1, 2, 0, 1), B(1, 2, 1, 0), B(1, 1, 1, 1), B(1, 0, 3, 2),
               B(2, 0, 0, 3)}

OneOfEach == {B(1, 1, 1, 0)}
=============================================================================
