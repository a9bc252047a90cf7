------------------------------ MODULE MCChecker ------------------------------
(* A selection page with a card and a manual one, which shows no spinner,    *)
(* and a page without a spinner, whose probe may run into its time limit.    *)
EXTENDS Checker, TLC

CONSTANTS steam, appimage, mesa, gaming, gpu

TwoPages == {gaming, gpu}
TwoPagesCards == (gaming :> {steam, appimage}) @@ (gpu :> {mesa})
=============================================================================
