------------------------------ MODULE LoadMethodsInv ------------------------------
(***************************************************************************)
(* The inductive invariant of LoadMethods: every class that is RW_LOADED   *)
(* has been called or waits, in an order in which its superclasses are     *)
(* before it; in ExactInv it waits only once.                              *)
(***************************************************************************)
EXTENDS LoadMethods

\* The superclasses of c that are to be called before it.
Above(c) == (Range(Superclasses[c]) \cap Loadable) \ {c}

\* What is left of the detached list, if it is of classes, or of categories.
Ahead         == IF phase = "classes" THEN Range(detached) ELSE {}
AheadCategory == IF phase = "categories" THEN Range(detached) ELSE {}

\* The superclasses of each class of the list are in first, or before it in the list.
Ordered(list, first) ==
  \A n \in DOMAIN list : list[n] # nil => Above(list[n]) \subseteq first \cup {list[k] : k \in 1 .. n - 1}

Distinct(list) ==
  \A m, n \in DOMAIN list : list[m] = list[n] /\ list[m] # nil => m = n

TypeInv ==
  /\ mapped \subseteq Image /\ notified \subseteq mapped
  /\ phase \in {"idle", "loop", "classes", "categories"}
  /\ loadable_classes \in Seq(Loadable \cup {nil}) /\ loadable_categories \in Seq(Category \cup {nil})
  /\ detached \in Seq(Loadable \cup Category \cup {nil})
  /\ phase = "classes" => Range(detached) \subseteq Loadable \cup {nil}
  /\ phase = "categories" => Range(detached) \subseteq Category \cup {nil}
  /\ loaded \subseteq Class /\ called \subseteq Class \cup Category

PhaseInv ==
  /\ phase = "idle" => loadable_classes = <<>> /\ loadable_categories = <<>>
  /\ phase \in {"idle", "loop"} => detached = <<>> /\ running = nil

\* What the images mapped need is mapped, and what they need told of has been.
ImagesInv ==
  /\ \A i \in mapped : Group[i] \subseteq mapped
  /\ \A i \in notified : Before[i] \subseteq notified /\ Range(nlclslist[i]) \subseteq loaded
  /\ \A c \in loaded : ImageOf(c) \in mapped /\ Range(Superclasses[c]) \subseteq loaded

\* No +load is forgotten.
CoverInv ==
  /\ loaded \cap Loadable \subseteq called \cup Ahead \cup Range(loadable_classes)
  /\ \A i \in notified : Categories(i) \subseteq called \cup AheadCategory \cup Range(loadable_categories)

\* Every +load waits at one place, or has been called.
ExactInv ==
  /\ Ahead \cup Range(loadable_classes) \cup (called \cap Class) \subseteq loaded \cup {nil}
  /\ \A k \in AheadCategory \cup Range(loadable_categories) \cup (called \cap Category) :
       k # nil => \E i \in notified : k \in Categories(i)
  /\ Distinct(detached) /\ Distinct(loadable_classes) /\ Distinct(loadable_categories)
  /\ Range(detached) \cap (Range(loadable_classes) \cup Range(loadable_categories)) \subseteq {nil}
  /\ called \cap (Range(detached) \cup Range(loadable_classes) \cup Range(loadable_categories)) = {}

OrderInv ==
  /\ Ordered(loadable_classes, called \cup Ahead)
  /\ phase = "classes" => Ordered(detached, called)
  /\ \A k \in AheadCategory \ {nil} : ClassOf[k] \in Loadable =>
       Range(Superclasses[ClassOf[k]]) \cap Loadable \subseteq called

\* An image closed while it waits in the detached list is called all the same.
IInv ==
  /\ TypeInv /\ PhaseInv /\ ImagesInv /\ CoverInv
  /\ ~ClosesWaiting => ExactInv /\ OrderInv
================================================================================
