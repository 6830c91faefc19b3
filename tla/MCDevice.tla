------------------------------ MODULE MCDevice ------------------------------
(***************************************************************************)
(* Two threads, a device with two applications that have a path and a tool  *)
(* that has none: lists in one order and in the other one, with other       *)
(* versions, and a list of one application.                                 *)
(***************************************************************************)
EXTENDS Device, TLC

CONSTANTS w1, w2, mail, tool, edit

Item(app, version) == [app |-> app, version |-> version]

MCUpload ==
  {<<Item(mail, 1), Item(tool, 1), Item(edit, 1)>>,
   <<Item(edit, 2), Item(tool, 2), Item(mail, 1)>>,
   <<Item(mail, 2)>>}

Symmetric == Permutations(Worker)

=============================================================================
