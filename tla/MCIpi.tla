------------------------------- MODULE MCIpi -------------------------------
(* Three CPUs are enough for a request to be sent while another is handled and
   for the thread in sys_reboot to move before and after it signalled a CPU. *)
EXTENDS Ipi
=============================================================================
