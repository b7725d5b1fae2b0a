---------------------------- MODULE MCVirtQueues ----------------------------
EXTENDS VirtQueues, TLC

FrameSymmetry == Permutations(Frames \ HighFrames)
=============================================================================
