------------------------------ MODULE MCWallet ------------------------------
(* Small instances of Wallet for TLC.  The fee is one half, so that both    *)
(* its rounding up (1 costs 2) and its exact case (2 costs 3) occur.        *)
EXTENDS Wallet, TLC

CONSTANTS p1, j1, j2, c1, c2, c3

OnePayment == {p1}
OneJob == {j1}
TwoJobs == {j1, j2}
TwoCalls == {c1, c2}
ThreeCalls == {c1, c2, c3}
DebitOrGift == {-2, 3}
OneOrTwo == {1, 2}
UpToThree == {1, 3}
WalletSymmetry == Permutations(Payment) \cup Permutations(Job) \cup Permutations(Call)
=============================================================================
