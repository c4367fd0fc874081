------------------------------ MODULE MCLoadMethods ------------------------------
(***************************************************************************)
(* LoadMethods for TLC: a program of two images, of which each needs the   *)
(* other, and three bundles, one of which extends and subclasses the class *)
(* of another.                                                             *)
(***************************************************************************)
EXTENDS LoadMethods

CONSTANTS app, framework, bundle, plugin, other,
          Root, Super, Sub, Two, Three, Four, SuperMore, TwoMore, RootMore

Groups ==
  [i \in Image |-> CASE i \in {app, framework} -> {app, framework}
                     [] i = plugin -> {app, framework, bundle, plugin}
                     [] OTHER -> {app, framework, i}]

\* The framework and the app depend on each other: dyld tells of the app first.
Order ==
  [i \in Image |-> CASE i = app -> {}
                     [] i = framework -> {app}
                     [] OTHER -> Groups[i] \ {i}]

ClassSets ==
  [i \in Image |-> CASE i = app -> {Sub}
                     [] i = framework -> {Root, Super}
                     [] i = bundle -> {Two}
                     [] i = plugin -> {Three}
                     [] i = other -> {Four}]

ClassLists ==
  [i \in Image |-> CASE i = app -> <<Sub>>
                     [] i = framework -> <<Super>>
                     [] i = bundle -> <<Two>>
                     [] i = plugin -> <<Three>>
                     [] i = other -> <<>>]

CategoryLists ==
  [i \in Image |-> CASE i = framework -> <<SuperMore>>
                     [] i = plugin -> <<TwoMore>>
                     [] i = other -> <<RootMore>>
                     [] OTHER -> <<>>]

\* Root and Four have no +load of their own.
Lines ==
  [c \in {Root, Super, Sub, Two, Three, Four} |->
     CASE c = Root  -> <<Root>>
       [] c = Super -> <<Root, Super>>
       [] c = Sub   -> <<Root, Super, Sub>>
       [] c = Two   -> <<Root, Super, Two>>
       [] c = Three -> <<Root, Super, Two, Three>>
       [] c = Four  -> <<Root, Four>>]

Extends ==
  [k \in {SuperMore, TwoMore, RootMore} |->
     CASE k = SuperMore -> Super [] k = TwoMore -> Two [] k = RootMore -> Root]
================================================================================
