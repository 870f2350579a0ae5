------------------------------ MODULE MCSheetRows ------------------------------
(* An instance of SheetRows for TLC: one installation has the sheet to itself. *)
EXTENDS SheetRows, TLC

OneClient == [s \in Writers |-> CHOOSE c \in Clients : TRUE]
EveryFile == [c \in Clients |-> SheetFiles]
=============================================================================
