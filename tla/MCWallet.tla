------------------------------ MODULE MCWallet ------------------------------
EXTENDS Wallet, TLC
MCSymmetry == Permutations(Holders)
=============================================================================
