---------------------------- MODULE MCBillingWorker ----------------------------
(* BillingWorker with one ride of any kind and two workers.                  *)
EXTENDS BillingWorker
=============================================================================
