------------------------------ MODULE MCStudy ------------------------------
(* Study on small jobs: the .cfg files give the sizes.                     *)
EXTENDS Study
=============================================================================
