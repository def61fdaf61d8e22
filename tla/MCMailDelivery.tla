-------------------------- MODULE MCMailDelivery --------------------------
(* Instances of MailDelivery for TLC. *)
EXTENDS MailDelivery, TLC

CONSTANTS n1, n2

=============================================================================
