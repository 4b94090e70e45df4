---------------------------- MODULE ProcessTexts ----------------------------
(***************************************************************************)
(* ProcessTable with the texts its calls read, which are those of ProcFiles.  *)
(***************************************************************************)
EXTENDS ProcessTable, ProcFiles

(* ProcessTable takes the files of /proc to say whose they are; once a call    *)
(* has entries or rows, every text it may have made them from says to          *)
(* ProcessCollector and NetworkCollector exactly what the kernel printed,       *)
(* whatever the process calls itself.                                       *)
TextsReadBack ==
    /\ entries # {} => ProcessTextsReadBack
    /\ rows # {} => NetworkTextsReadBack

=============================================================================
