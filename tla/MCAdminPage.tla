------------------------------ MODULE MCAdminPage ------------------------------
EXTENDS AdminPage, TLC

SlotSymmetry == Permutations(Slots)

=============================================================================
