-------------------------- MODULE MCBookingGateway --------------------------
(* Small instances of BookingGateway for TLC.                              *)
EXTENDS BookingGateway, TLC

CONSTANTS q1, a1

\* Two confirmation tokens issued for the one quote of one broker.
SharedQuote == [t \in Tokens |-> q1]
OneConfirmer == [t \in Tokens |-> a1]
OneSeller == [q \in Quotes |-> a1]
AllAgree == Tokens

Symmetric == Permutations(Requests) \cup Permutations(Keys)

=============================================================================
