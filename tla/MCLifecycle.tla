---------------------------- MODULE MCLifecycle ----------------------------
(***************************************************************************)
(* Instances of Lifecycle for TLC.  Labels that crash runs choose from.    *)
(***************************************************************************)
EXTENDS Lifecycle

NoCrash == {}

\* A caller may be killed anywhere.
CrashAnywhere == Labels

\* Anywhere but between setting the OS proxy and saving the record of it.
CrashOutsideWindow == Labels \ {"up_save", "sp_save"}
=============================================================================
