------------------------------ MODULE MCPicol ------------------------------
EXTENDS PicolVars, TLC

FramesAlike == Permutations(Frames)
=============================================================================
