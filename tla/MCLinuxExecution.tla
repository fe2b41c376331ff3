-------------------------- MODULE MCLinuxExecution --------------------------
(* Two commands on one prepared step, one failing system call, one denied     *)
(* system call: enough for a fault of the first command to meet the second.   *)
EXTENDS LinuxExecution
=============================================================================
