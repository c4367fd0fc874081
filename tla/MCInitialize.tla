------------------------------ MODULE MCInitialize ------------------------------
(***************************************************************************)
(* Initialize for TLC.  The classes are those of the comment on the        *)
(* deadlock: OBObject messages its subclasses, one of them the other and a *)
(* class that is not in the hierarchy.                                     *)
(***************************************************************************)
EXTENDS Initialize

CONSTANTS Root, OBObject, OFObject, OWController, OBPostLoader

Hierarchy ==
  [c \in Class |-> CASE c = Root -> nil
                     [] c \in {OBObject, OBPostLoader} -> Root
                     [] c \in {OFObject, OWController} -> OBObject]

Messages ==
  [c \in Class |-> CASE c = OBObject -> {OFObject, OWController}
                     [] c = OFObject -> {OWController, OBPostLoader}
                     [] OTHER -> {}]
================================================================================
