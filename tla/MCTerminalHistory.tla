------------------------- MODULE MCTerminalHistory -------------------------
EXTENDS TerminalHistory, TLC

ReaderSymmetry == Permutations(Readers)
=============================================================================
