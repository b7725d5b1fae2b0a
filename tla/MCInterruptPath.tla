-------------------------- MODULE MCInterruptPath --------------------------
(* Two interrupting threads, so that an interrupt meets another at every    *)
(* point of vm_interrupt, and one driver thread that shares the channel.    *)
EXTENDS InterruptPath
=============================================================================
