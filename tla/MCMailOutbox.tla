---------------------------- MODULE MCMailOutbox ----------------------------
(* Small instances of MailOutbox for TLC. *)
EXTENDS MailOutbox, TLC
=============================================================================
