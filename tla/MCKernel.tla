------------------------------ MODULE MCKernel ------------------------------
(***************************************************************************)
(* Instances of Kernel for TLC.                                             *)
(***************************************************************************)
EXTENDS Kernel

\* start_kernel as shipped, and with the user thread it has commented out.
ShippedThreads == <<"spin", "spin">>
UserThreads == <<"user", "spin", "spin">>

\* One thread more than the four slots of user_thread, so that a fork of
\* start_kernel finds g_task full.
FullTaskTable == UserThreads \o <<"spin">>
=============================================================================
