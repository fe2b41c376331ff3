---------------------------- MODULE MCWorkspace ----------------------------
(* Two processes, a source of two entries, and two faults: two deaths, two   *)
(* of one edit, one death and one intervention of another program, or Git    *)
(* metadata that is swapped and put back.                                    *)
EXTENDS Workspace

MCNext ==
    /\ Next
    /\ EditSource => source = [f \in Files |-> First]
    /\ Replace => (foreign => anchor = Stranger /\ anchor' # Stranger)

MCSpec == Init /\ [][MCNext]_vars /\ Fairness
=============================================================================
