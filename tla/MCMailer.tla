----------------------------- MODULE MCMailer ------------------------------
(* An instance of Mailer for TLC.                                          *)
EXTENDS Mailer

\* perHour and perHourTest, scaled down.
Limits == [k \in Kinds |-> IF k = "alert" THEN 2 ELSE 1]
=============================================================================
